---- MODULE Spec2Model ----
(***************************************************************************)
(* Native-handle lifecycle of the rist wrapper crate: the blocking Sender  *)
(* and Receiver, the readiness-pipe AsyncReceiver and the worker-offload   *)
(* AsyncSender.  Every handler is an operator that returns its result and  *)
(* the native calls it issues, in order; the actions apply those calls to  *)
(* the native engine's view of its Context and PeerConfig handles.         *)
(***************************************************************************)
EXTENDS Integers, Sequences, FiniteSets, TLC

\* ---------------------------------------------------------------- bounds
MaxCfgs == 2          \* PeerConfig handles the native parser can allocate
MaxUrlLen == 1        \* bytes in an address string
MaxSendTasks == 1     \* spawn_blocking tasks in flight per AsyncSender
MaxBlocks == 3        \* data-block handles the native engine hands out
MaxPayload == 1       \* bytes in a payload handed to send
MaxBlockLen == 2      \* bytes in the payload of a received data block
MaxCallbacks == 2     \* stats callback invocations per session
MaxSent == 2          \* payloads the sender of the loopback pair gets accepted

\* ------------------------------------------------------- program constants
NULL == 0             \* ptr::null_mut()
NUL == 0              \* the byte CString::new rejects
I32_MAX == 2147483647 \* largest value of the native timeout parameter

\* One session object; its Context handle, once created, is its index.
\* Sessions share no state in the wrapper, so one stands for each.
Sessions == {1}
CfgHandles == 1..MaxCfgs
SendSlots == 1..MaxSendTasks
BlockHandles == 1..MaxBlocks
PayloadLens == 0..MaxPayload
CallbackIds == 1..MaxCallbacks

\* The payload of the block behind handle b: handles cycle through a
\* single byte, the longest payload and an empty payload (payload_len is any
\* size_t, and send accepts an empty slice); byte i of block b is 10 * b + i.
PayloadLen(b) == IF b % 3 = 1 THEN 1 ELSE IF b % 3 = 2 THEN MaxBlockLen ELSE 0
Payload(b) == [i \in 1..PayloadLen(b) |-> 10 * b + i]

\* buf.remaining() of the ReadBuf a stream reader passes in.
Capacities == 0..MaxBlockLen

Min(a, b) == IF a < b THEN a ELSE b

\* Address strings: byte sequences; 114 stands for any byte other than NUL.
UrlBytes == {NUL, 114}
Urls == UNION {[1..n -> UrlBytes] : n \in 0..MaxUrlLen}
NoUrl == <<>>

\* Duration::as_millis() is a u128.  A value is kept as hi * 2^31 + lo with
\* 0 <= lo < 2^31, so every value the i32 conversion can accept has hi = 0.
Millis(hi, lo) == [hi |-> hi, lo |-> lo]
Timeouts ==
    { Millis(0, 0), Millis(0, 100), Millis(0, I32_MAX),
      Millis(1, 0), Millis(1, 100), Millis(2, 100) }
NoTimeout == Millis(0, 0)

\* Timeouts given to recv_timeout, which never inspects the value: one
\* within the i32 millisecond range and one beyond it.
RecvTimeouts == {Millis(0, 100), Millis(2, 100)}

\* ------------------------------------------------------------ results
R(kind) == [kind |-> kind, url |-> NoUrl, n |-> 0]
RUrl(kind, url) == [kind |-> kind, url |-> url, n |-> 0]
RN(kind, n) == [kind |-> kind, url |-> NoUrl, n |-> n]

ErrorKinds ==
    { "ContextCreation", "PeerCreation", "UrlParse", "Start", "Send", "Read",
      "NulError", "AlreadyStarted", "NotStarted", "TimeoutOverflow",
      "LoggingSetup", "JoinError", "EventFd" }
IsErr(r) == r.kind \in ErrorKinds

\* ------------------------------------------------------- native calls
\* One call into librist (or one write through a native pointer): the
\* function, the Context and PeerConfig handles it is given or hands back,
\* its integer argument and its return code.
Call(fn, ctx, cfg, blk, arg, ret) ==
    [fn |-> fn, ctx |-> ctx, cfg |-> cfg, blk |-> blk, arg |-> arg,
     flow |-> 0, ret |-> ret]

\* rist_sender_data_write with a descriptor of len bytes and a flow id.
WriteCall(ctx, len, flow_id, ret) ==
    [Call("rist_sender_data_write", ctx, NULL, NULL, len, ret)
        EXCEPT !.flow = flow_id]

\* A read of a block's payload through the native pointer (DataBlock::payload
\* and the use of the slice it returns).
PayloadRead(blk) == Call("payload", NULL, NULL, blk, 0, 0)

\* The Box that holds the stats cell a callback was registered with goes
\* out of scope or is dropped with its owner: the cell is freed.
StatsDataDrop(ctx) == Call("drop_stats_data", ctx, NULL, NULL, 0, 0)

CallsTo(calls, fns) == {i \in DOMAIN calls : calls[i].fn \in fns}

\* The block handles the native reads among calls handed out, in call order.
RECURSIVE HandedOutBy(_)
HandedOutBy(calls) ==
    IF calls = <<>> THEN <<>>
    ELSE LET c == Head(calls)
         IN  (IF c.fn = "rist_receiver_data_read2" /\ c.blk # NULL
              THEN <<c.blk>> ELSE <<>>) \o HandedOutBy(Tail(calls))

\* The block handle a receive call returned to its caller, if any.
ReturnedBy(r) == IF r.result.kind = "OkSome" THEN <<r.result.n>> ELSE <<>>

IsPrefix(p, q) == Len(p) <= Len(q) /\ SubSeq(q, 1, Len(p)) = p

\* The payloads of the blocks behind handles, one after the other.
RECURSIVE Payloads(_)
Payloads(handles) ==
    IF handles = <<>> THEN <<>>
    ELSE Payload(Head(handles)) \o Payloads(Tail(handles))

CreateFns == {"rist_sender_create", "rist_receiver_create"}
CfgUseFns == {"apply_to_peer_config", "rist_peer_create"}

VARIABLES
    sess,       \* the wrapper objects: kind, status, started flag
    ctxs,       \* native view of each Context handle
    cfgs,       \* native view of each PeerConfig handle
    blks,       \* native view of each data-block handle
    conn,       \* AsyncSender: the Connect future and its worker task
    sendTasks,  \* AsyncSender: the spawn_blocking tasks of send
    rx,         \* AsyncReceiver: notification pipe, native fifo, pending recv
    stats,      \* async sessions: the stats cell, its lock, callback and reader
    pcfg,       \* an options object and the peer configuration it is applied to
    link,       \* a receiver and a sender joined over loopback
    lastCall    \* the operation step that ran last: result and native calls

vars == <<sess, ctxs, cfgs, blks, conn, sendTasks, rx, stats, pcfg, link,
          lastCall>>

\* The native engine's bookkeeping of one call.
ApplyCtxCall(cs, c) ==
    IF c.ctx = NULL THEN cs
    ELSE IF c.fn \in CreateFns
        THEN [cs EXCEPT ![c.ctx].state = "live"]
    ELSE IF c.fn = "rist_destroy"
        THEN [cs EXCEPT ![c.ctx].state = "destroyed",
                        ![c.ctx].destroys = @ + 1]
    ELSE IF c.fn = "drop_stats_data"
        THEN [cs EXCEPT ![c.ctx].cell =
                 IF cs[c.ctx].state = "live" /\ @ = "held"
                 THEN "dangling" ELSE "freed"]
    ELSE IF cs[c.ctx].state = "destroyed"
        THEN [cs EXCEPT ![c.ctx].late = @ \cup {c.fn}]
    ELSE IF c.fn = "rist_stats_callback_set"
        THEN [cs EXCEPT ![c.ctx].cell = "held"]
    ELSE IF c.fn = "rist_start" /\ c.ret = 0
        THEN [cs EXCEPT ![c.ctx].started = TRUE]
    ELSE IF c.fn = "rist_peer_create" /\ c.ret = 0
        THEN [cs EXCEPT ![c.ctx].peers = TRUE]
    ELSE cs

ApplyCfgCall(fs, c) ==
    IF c.cfg = NULL THEN fs
    ELSE IF c.fn = "rist_parse_address2"
        THEN [fs EXCEPT ![c.cfg].state = "live"]
    ELSE IF c.fn = "rist_peer_config_free2"
        THEN [fs EXCEPT ![c.cfg].state = "freed", ![c.cfg].frees = @ + 1]
    ELSE IF c.fn \in CfgUseFns /\ fs[c.cfg].state = "freed"
        THEN [fs EXCEPT ![c.cfg].late = TRUE]
    ELSE fs

ApplyBlkCall(bs, c) ==
    IF c.blk = NULL THEN bs
    ELSE IF c.fn = "rist_receiver_data_read2"
        THEN [bs EXCEPT ![c.blk].state = "live"]
    ELSE IF c.fn = "rist_receiver_data_block_free2"
        THEN [bs EXCEPT ![c.blk].state = "freed", ![c.blk].frees = @ + 1]
    ELSE IF c.fn = "payload" /\ bs[c.blk].state = "freed"
        THEN [bs EXCEPT ![c.blk].late = TRUE]
    ELSE bs

RECURSIVE RunCtxCalls(_, _)
RunCtxCalls(cs, calls) ==
    IF calls = <<>> THEN cs
    ELSE RunCtxCalls(ApplyCtxCall(cs, Head(calls)), Tail(calls))

RECURSIVE RunCfgCalls(_, _)
RunCfgCalls(fs, calls) ==
    IF calls = <<>> THEN fs
    ELSE RunCfgCalls(ApplyCfgCall(fs, Head(calls)), Tail(calls))

RECURSIVE RunBlkCalls(_, _)
RunBlkCalls(bs, calls) ==
    IF calls = <<>> THEN bs
    ELSE RunBlkCalls(ApplyBlkCall(bs, Head(calls)), Tail(calls))

\* The handle the native parser allocates next; NULL when none is left.
FreshCfg ==
    IF \E c \in CfgHandles : cfgs[c].state = "unused"
    THEN CHOOSE c \in CfgHandles :
            /\ cfgs[c].state = "unused"
            /\ \A d \in CfgHandles : cfgs[d].state = "unused" => c <= d
    ELSE NULL

\* Outcomes of the native constructors: a handle is produced only with
\* return code 0, and the handle slot can stay null.
CreateOutcomes(s) ==
    { [ret |-> 0, ctx |-> s], [ret |-> 0, ctx |-> NULL], [ret |-> -1, ctx |-> NULL] }

\* Outcomes of rist_parse_address2: any return code with any state of the
\* out-pointer (librist allocates the config before it parses the options).
ParseOutcomes ==
    { [ret |-> r, cfg |-> c] : r \in {0, -1}, c \in {NULL, FreshCfg} }

RetCodes == {0, -1}

\* The data block a native read can hand out next; NULL when none is left.
FreshBlk ==
    IF \E b \in BlockHandles : blks[b].state = "unused"
    THEN CHOOSE b \in BlockHandles :
            /\ blks[b].state = "unused"
            /\ \A d \in BlockHandles : blks[d].state = "unused" => b <= d
    ELSE NULL

\* Outcomes of rist_receiver_data_read2: a negative code, zero, or a
\* positive code, and the block out-pointer set only with a positive code.
ReadOutcomes ==
    { [ret |-> -1, blk |-> NULL], [ret |-> 0, blk |-> NULL],
      [ret |-> 1, blk |-> NULL], [ret |-> 1, blk |-> FreshBlk] }

\* Outcomes of rist_sender_data_write for len bytes: an error or the
\* number of bytes accepted.
WriteOutcomes(len) == {-1} \cup (0..len)

Step(s, op, url, timeout, result, calls) ==
    [sess |-> s, op |-> op, url |-> url, timeout |-> timeout,
     len |-> 0, flow |-> 0, result |-> result, calls |-> calls]

Record(s, op, url, timeout, r) ==
    /\ lastCall' = Step(s, op, url, timeout, r.result, r.calls)
    /\ ctxs' = RunCtxCalls(ctxs, r.calls)
    /\ cfgs' = RunCfgCalls(cfgs, r.calls)
    /\ blks' = RunBlkCalls(blks, r.calls)

\* Record for an operation given len payload bytes and a flow id.
RecordSend(s, op, len, flow_id, r) ==
    /\ lastCall' = [Step(s, op, NoUrl, NoTimeout, r.result, r.calls)
                       EXCEPT !.len = len, !.flow = flow_id]
    /\ ctxs' = RunCtxCalls(ctxs, r.calls)
    /\ cfgs' = RunCfgCalls(cfgs, r.calls)
    /\ blks' = RunBlkCalls(blks, r.calls)

\* ---------------------------------------------------- blocking Sender
\* Sender::new.  out is what rist_sender_create returned and wrote.
Sender_new(out) ==
    LET calls == <<Call("rist_sender_create", out.ctx, NULL, NULL, 0, out.ret)>>
    IN  IF out.ret # 0 \/ out.ctx = NULL
        THEN [result |-> R("ContextCreation"), calls |-> calls, made |-> FALSE]
        ELSE [result |-> R("Ok"), calls |-> calls, made |-> TRUE]

\* CString::new(url): fails when the string holds a NUL byte.
HasNul(url) == \E i \in DOMAIN url : url[i] = NUL

\* Sender::add_peer with the CString check left out: the string reaches
\* the native parser as it is.
Sender_add_peer_NoNulCheck(ctx, url, parse, peerRet) ==
    LET c1 == <<Call("rist_parse_address2", NULL, parse.cfg, NULL, 0, parse.ret)>>
    IN  IF parse.ret # 0 \/ parse.cfg = NULL
        THEN [result |-> RUrl("UrlParse", url), calls |-> c1]
        ELSE LET c2 == c1 \o
                   << Call("rist_peer_create", ctx, parse.cfg, NULL, 0, peerRet),
                      Call("rist_peer_config_free2", NULL, parse.cfg, NULL, 0, 0) >>
             IN  IF peerRet # 0
                 THEN [result |-> RUrl("PeerCreation", url), calls |-> c2]
                 ELSE [result |-> R("Ok"), calls |-> c2]

\* Sender::add_peer.  parse and peerRet are the native outcomes.
Sender_add_peer(ctx, url, parse, peerRet) ==
    IF HasNul(url)
    THEN [result |-> R("NulError"), calls |-> <<>>]
    ELSE LET c1 == <<Call("rist_parse_address2", NULL, parse.cfg, NULL, 0, parse.ret)>>
         IN  IF parse.ret # 0 \/ parse.cfg = NULL
             THEN [result |-> RUrl("UrlParse", url), calls |-> c1]
             ELSE LET c2 == c1 \o
                        << Call("rist_peer_create", ctx, parse.cfg, NULL, 0, peerRet),
                           Call("rist_peer_config_free2", NULL, parse.cfg, NULL, 0, 0) >>
                  IN  IF peerRet # 0
                      THEN [result |-> RUrl("PeerCreation", url), calls |-> c2]
                      ELSE [result |-> R("Ok"), calls |-> c2]

\* Sender::start with the started check left out.
Sender_start_Unchecked(ctx, started, ret) ==
    LET calls == <<Call("rist_start", ctx, NULL, NULL, 0, ret)>>
    IN  IF ret # 0
        THEN [result |-> R("Start"), calls |-> calls, started |-> started]
        ELSE [result |-> R("Ok"), calls |-> calls, started |-> TRUE]

\* Sender::start.
Sender_start(ctx, started, ret) ==
    IF started
    THEN [result |-> R("AlreadyStarted"), calls |-> <<>>, started |-> started]
    ELSE LET calls == <<Call("rist_start", ctx, NULL, NULL, 0, ret)>>
         IN  IF ret # 0
             THEN [result |-> R("Start"), calls |-> calls, started |-> started]
             ELSE [result |-> R("Ok"), calls |-> calls, started |-> TRUE]

\* Sender::send reporting the length it was given in place of the native
\* return value.
Sender_send_ReportsLength(ctx, started, len, ret) ==
    IF ~started
    THEN [result |-> R("NotStarted"), calls |-> <<>>]
    ELSE LET calls == <<WriteCall(ctx, len, 0, ret)>>
         IN  IF ret < 0
             THEN [result |-> R("Send"), calls |-> calls]
             ELSE [result |-> RN("Ok", len), calls |-> calls]

\* Sender::send: len bytes, flow id 0; ret is the native return.
Sender_send(ctx, started, len, ret) ==
    IF ~started
    THEN [result |-> R("NotStarted"), calls |-> <<>>]
    ELSE LET calls == <<WriteCall(ctx, len, 0, ret)>>
         IN  IF ret < 0
             THEN [result |-> R("Send"), calls |-> calls]
             ELSE [result |-> RN("Ok", ret), calls |-> calls]

\* Sender::send_with_flow_id.
Sender_send_with_flow_id(ctx, started, len, flow_id, ret) ==
    IF ~started
    THEN [result |-> R("NotStarted"), calls |-> <<>>]
    ELSE LET calls == <<WriteCall(ctx, len, flow_id, ret)>>
         IN  IF ret < 0
             THEN [result |-> R("Send"), calls |-> calls]
             ELSE [result |-> RN("Ok", ret), calls |-> calls]

\* impl Drop for Sender.
Sender_drop(ctx) ==
    [result |-> R("Ok"), calls |-> <<Call("rist_destroy", ctx, NULL, NULL, 0, 0)>>]

\* -------------------------------------------------- blocking Receiver
\* Receiver::new.
Receiver_new(out) ==
    LET calls == <<Call("rist_receiver_create", out.ctx, NULL, NULL, 0, out.ret)>>
    IN  IF out.ret # 0 \/ out.ctx = NULL
        THEN [result |-> R("ContextCreation"), calls |-> calls, made |-> FALSE]
        ELSE [result |-> R("Ok"), calls |-> calls, made |-> TRUE]

\* Receiver::add_peer with errors that do not carry the address.
Receiver_add_peer_LosesUrl(ctx, url, parse, peerRet) ==
    IF HasNul(url)
    THEN [result |-> R("NulError"), calls |-> <<>>]
    ELSE LET c1 == <<Call("rist_parse_address2", NULL, parse.cfg, NULL, 0, parse.ret)>>
         IN  IF parse.ret # 0 \/ parse.cfg = NULL
             THEN [result |-> R("UrlParse"), calls |-> c1]
             ELSE LET c2 == c1 \o
                        << Call("rist_peer_create", ctx, parse.cfg, NULL, 0, peerRet),
                           Call("rist_peer_config_free2", NULL, parse.cfg, NULL, 0, 0) >>
                  IN  IF peerRet # 0
                      THEN [result |-> R("PeerCreation"), calls |-> c2]
                      ELSE [result |-> R("Ok"), calls |-> c2]

\* Receiver::add_peer.
Receiver_add_peer(ctx, url, parse, peerRet) ==
    IF HasNul(url)
    THEN [result |-> R("NulError"), calls |-> <<>>]
    ELSE LET c1 == <<Call("rist_parse_address2", NULL, parse.cfg, NULL, 0, parse.ret)>>
         IN  IF parse.ret # 0 \/ parse.cfg = NULL
             THEN [result |-> RUrl("UrlParse", url), calls |-> c1]
             ELSE LET c2 == c1 \o
                        << Call("rist_peer_create", ctx, parse.cfg, NULL, 0, peerRet),
                           Call("rist_peer_config_free2", NULL, parse.cfg, NULL, 0, 0) >>
                  IN  IF peerRet # 0
                      THEN [result |-> RUrl("PeerCreation", url), calls |-> c2]
                      ELSE [result |-> R("Ok"), calls |-> c2]

\* Receiver::start setting the flag before it looks at the native return.
Receiver_start_SetsOnError(ctx, started, ret) ==
    IF started
    THEN [result |-> R("AlreadyStarted"), calls |-> <<>>, started |-> started]
    ELSE LET calls == <<Call("rist_start", ctx, NULL, NULL, 0, ret)>>
         IN  IF ret # 0
             THEN [result |-> R("Start"), calls |-> calls, started |-> TRUE]
             ELSE [result |-> R("Ok"), calls |-> calls, started |-> TRUE]

\* Receiver::start.
Receiver_start(ctx, started, ret) ==
    IF started
    THEN [result |-> R("AlreadyStarted"), calls |-> <<>>, started |-> started]
    ELSE LET calls == <<Call("rist_start", ctx, NULL, NULL, 0, ret)>>
         IN  IF ret # 0
             THEN [result |-> R("Start"), calls |-> calls, started |-> started]
             ELSE [result |-> R("Ok"), calls |-> calls, started |-> TRUE]

\* A truncating cast (as i32) in place of try_into: the low 32 bits, read
\* as a signed value.
AsI32Cast(ms) ==
    [ok |-> TRUE, v |-> IF ms.hi % 2 = 1 THEN ms.lo - I32_MAX - 1 ELSE ms.lo]

\* timeout.as_millis().try_into(): u128 to i32, refusing what does not fit.
TryIntoI32(ms) ==
    IF ms.hi = 0 THEN [ok |-> TRUE, v |-> ms.lo] ELSE [ok |-> FALSE, v |-> 0]

\* Receiver::read with the null check of the block pointer left out.
Receiver_read_WrapsNull(ctx, started, timeout, out) ==
    IF ~started
    THEN [result |-> R("NotStarted"), calls |-> <<>>]
    ELSE LET timeout_ms == TryIntoI32(timeout)
         IN  IF ~timeout_ms.ok
             THEN [result |-> R("TimeoutOverflow"), calls |-> <<>>]
             ELSE LET calls == <<Call("rist_receiver_data_read2", ctx, NULL,
                                      out.blk, timeout_ms.v, out.ret)>>
                  IN  IF out.ret < 0
                      THEN [result |-> R("Read"), calls |-> calls]
                      ELSE IF out.ret = 0
                      THEN [result |-> R("OkNone"), calls |-> calls]
                      ELSE [result |-> RN("OkSome", out.blk), calls |-> calls]

\* Receiver::read with the started check left out.
Receiver_read_Unchecked(ctx, started, timeout, out) ==
    LET timeout_ms == TryIntoI32(timeout)
    IN  IF ~timeout_ms.ok
        THEN [result |-> R("TimeoutOverflow"), calls |-> <<>>]
        ELSE LET calls == <<Call("rist_receiver_data_read2", ctx, NULL,
                                 out.blk, timeout_ms.v, out.ret)>>
             IN  IF out.ret < 0
                 THEN [result |-> R("Read"), calls |-> calls]
                 ELSE IF out.ret = 0 \/ out.blk = NULL
                 THEN [result |-> R("OkNone"), calls |-> calls]
                 ELSE [result |-> RN("OkSome", out.blk), calls |-> calls]

\* Receiver::read.
Receiver_read(ctx, started, timeout, out) ==
    IF ~started
    THEN [result |-> R("NotStarted"), calls |-> <<>>]
    ELSE LET timeout_ms == TryIntoI32(timeout)
         IN  IF ~timeout_ms.ok
             THEN [result |-> R("TimeoutOverflow"), calls |-> <<>>]
             ELSE LET calls == <<Call("rist_receiver_data_read2", ctx, NULL,
                                      out.blk, timeout_ms.v, out.ret)>>
                  IN  IF out.ret < 0
                      THEN [result |-> R("Read"), calls |-> calls]
                      ELSE IF out.ret = 0 \/ out.blk = NULL
                      THEN [result |-> R("OkNone"), calls |-> calls]
                      ELSE [result |-> RN("OkSome", out.blk), calls |-> calls]

\* impl Drop for Receiver.
Receiver_drop(ctx) ==
    [result |-> R("Ok"), calls |-> <<Call("rist_destroy", ctx, NULL, NULL, 0, 0)>>]

\* impl Drop for DataBlock.
DataBlock_drop(blk) ==
    [result |-> R("Ok"),
     calls |-> <<Call("rist_receiver_data_block_free2", NULL, NULL, blk, 0, 0)>>]

\* DataBlock::payload: the byte view, read through the native pointer.
DataBlock_payload(blk) ==
    [result |-> RN("Ok", PayloadLen(blk)), calls |-> <<PayloadRead(blk)>>]

\* ------------------------------------------------------ AsyncReceiver
\* AsyncReceiver::add_peer_with_options destroying the context itself on
\* its error paths, the way the connect closure does.
AsyncReceiver_add_peer_with_options_Destroys(ctx, url, parse, peerRet) ==
    LET destroy == <<Call("rist_destroy", ctx, NULL, NULL, 0, 0)>>
    IN  IF HasNul(url)
        THEN [result |-> R("NulError"), calls |-> <<>>]
        ELSE LET c1 == <<Call("rist_parse_address2", NULL, parse.cfg, NULL, 0,
                              parse.ret)>>
             IN  IF parse.ret # 0 \/ parse.cfg = NULL
                 THEN [result |-> RUrl("UrlParse", url), calls |-> c1 \o destroy]
                 ELSE LET c2 == c1 \o
                        << Call("apply_to_peer_config", NULL, parse.cfg, NULL, 0, 0),
                           Call("rist_peer_create", ctx, parse.cfg, NULL, 0, peerRet),
                           Call("rist_peer_config_free2", NULL, parse.cfg, NULL, 0, 0) >>
                      IN  IF peerRet # 0
                          THEN [result |-> RUrl("PeerCreation", url),
                                calls |-> c2 \o destroy]
                          ELSE [result |-> R("Ok"), calls |-> c2]

\* AsyncReceiver::add_peer_with_options.
AsyncReceiver_add_peer_with_options(ctx, url, parse, peerRet) ==
    IF HasNul(url)
    THEN [result |-> R("NulError"), calls |-> <<>>]
    ELSE LET c1 == <<Call("rist_parse_address2", NULL, parse.cfg, NULL, 0, parse.ret)>>
         IN  IF parse.ret # 0 \/ parse.cfg = NULL
             THEN [result |-> RUrl("UrlParse", url), calls |-> c1]
             ELSE LET c2 == c1 \o
                        << Call("apply_to_peer_config", NULL, parse.cfg, NULL, 0, 0),
                           Call("rist_peer_create", ctx, parse.cfg, NULL, 0, peerRet),
                           Call("rist_peer_config_free2", NULL, parse.cfg, NULL, 0, 0) >>
                  IN  IF peerRet # 0
                      THEN [result |-> RUrl("PeerCreation", url), calls |-> c2]
                      ELSE [result |-> R("Ok"), calls |-> c2]

\* AsyncReceiver::start not looking at the native return.
AsyncReceiver_start_IgnoresReturn(ctx, ret) ==
    [result |-> R("Ok"), calls |-> <<Call("rist_start", ctx, NULL, NULL, 0, ret)>>]

\* AsyncReceiver::start (private; no started flag).
AsyncReceiver_start(ctx, ret) ==
    LET calls == <<Call("rist_start", ctx, NULL, NULL, 0, ret)>>
    IN  IF ret # 0
        THEN [result |-> R("Start"), calls |-> calls]
        ELSE [result |-> R("Ok"), calls |-> calls]

\* impl Drop for AsyncReceiver, and the drop of the fields after it.
AsyncReceiver_drop(ctx) ==
    [result |-> R("Ok"),
     calls |-> <<Call("rist_destroy", ctx, NULL, NULL, 0, 0), StatsDataDrop(ctx)>>]

\* AsyncReceiver::bind_with_options.  env gives the outcomes of the steps
\* before the peer is added: the native constructor, NotifyPipe::new,
\* rist_receiver_data_notify_fd_set and AsyncFd::new.  Once the receiver
\* value exists, an early return drops it.
AsyncReceiver_bind_with_options(url, env, parse, peerRet, startRet) ==
    LET c1 == <<Call("rist_receiver_create", env.create.ctx, NULL, NULL, 0,
                    env.create.ret)>>
        raw_ctx == env.create.ctx
    IN  IF env.create.ret # 0 \/ raw_ctx = NULL
        THEN [result |-> R("ContextCreation"), calls |-> c1, made |-> FALSE]
        ELSE IF ~env.pipeOk
        THEN [result |-> R("EventFd"), calls |-> c1, made |-> FALSE]
        ELSE LET c2 == Append(c1, Call("rist_receiver_data_notify_fd_set",
                                       raw_ctx, NULL, NULL, 0, env.notifyRet))
        IN  IF env.notifyRet # 0
            THEN [result |-> R("EventFd"), calls |-> c2, made |-> FALSE]
            ELSE IF ~env.asyncFdOk
            THEN [result |-> R("EventFd"), calls |-> c2, made |-> FALSE]
            ELSE LET c3 == Append(c2, Call("rist_stats_callback_set",
                                           raw_ctx, NULL, NULL, 1000, 0))
                     peer == AsyncReceiver_add_peer_with_options(
                                 raw_ctx, url, parse, peerRet)
                     st == AsyncReceiver_start(raw_ctx, startRet)
                     drop == AsyncReceiver_drop(raw_ctx)
            IN  IF IsErr(peer.result)
                THEN [result |-> peer.result,
                      calls |-> c3 \o peer.calls \o drop.calls, made |-> FALSE]
                ELSE IF IsErr(st.result)
                THEN [result |-> st.result,
                      calls |-> c3 \o peer.calls \o st.calls \o drop.calls,
                      made |-> FALSE]
                ELSE [result |-> R("Ok"),
                      calls |-> c3 \o peer.calls \o st.calls, made |-> TRUE]

BindEnvs(s) ==
    [create : CreateOutcomes(s), pipeOk : BOOLEAN, notifyRet : RetCodes,
     asyncFdOk : BOOLEAN]

\* try_recv handing back nothing for a block with a full-length payload.
AsyncReceiver_try_recv_SkipsFull(ctx, out) ==
    LET calls == <<Call("rist_receiver_data_read2", ctx, NULL, out.blk, 0, out.ret)>>
    IN  IF out.ret < 0
        THEN [result |-> R("Read"), calls |-> calls]
        ELSE IF out.ret = 0 \/ out.blk = NULL \/ PayloadLen(out.blk) = MaxBlockLen
        THEN [result |-> R("OkNone"), calls |-> calls]
        ELSE [result |-> RN("OkSome", out.blk), calls |-> calls]

\* AsyncReceiver::try_recv: a zero-timeout native read.
AsyncReceiver_try_recv(ctx, out) ==
    LET calls == <<Call("rist_receiver_data_read2", ctx, NULL, out.blk, 0, out.ret)>>
    IN  IF out.ret < 0
        THEN [result |-> R("Read"), calls |-> calls]
        ELSE IF out.ret = 0 \/ out.blk = NULL
        THEN [result |-> R("OkNone"), calls |-> calls]
        ELSE [result |-> RN("OkSome", out.blk), calls |-> calls]

\* AsyncReceiver::recv once readable() has returned: readableOk is the
\* outcome of the readiness wait, consumeOk that of NotifyPipe::consume.
\* cleared tells whether guard.clear_ready() was reached.
AsyncReceiver_recv(ctx, readableOk, consumeOk, out) ==
    IF ~readableOk
    THEN [result |-> R("EventFd"), calls |-> <<>>, drained |-> FALSE,
          cleared |-> FALSE]
    ELSE IF ~consumeOk
    THEN [result |-> R("EventFd"), calls |-> <<>>, drained |-> FALSE,
          cleared |-> FALSE]
    ELSE LET r == AsyncReceiver_try_recv(ctx, out)
         IN  [result |-> r.result, calls |-> r.calls, drained |-> TRUE,
              cleared |-> TRUE]

\* recv_timeout converting its timeout to native milliseconds first, the
\* way the blocking read does.
AsyncReceiver_recv_timeout_Converting(timeout, elapsed, inner) ==
    IF ~TryIntoI32(timeout).ok
    THEN [result |-> R("TimeoutOverflow"), calls |-> <<>>]
    ELSE IF elapsed
    THEN [result |-> R("OkNone"), calls |-> <<>>]
    ELSE [result |-> inner.result, calls |-> inner.calls]

\* recv_timeout reporting an elapsed deadline as an error.
AsyncReceiver_recv_timeout_ElapsedError(timeout, elapsed, inner) ==
    IF elapsed
    THEN [result |-> R("Read"), calls |-> <<>>]
    ELSE [result |-> inner.result, calls |-> inner.calls]

\* AsyncReceiver::recv_timeout: tokio's timeout around recv.  inner is the
\* finished recv, or elapsed tells that the deadline won.
AsyncReceiver_recv_timeout(timeout, elapsed, inner) ==
    IF elapsed
    THEN [result |-> R("OkNone"), calls |-> <<>>]
    ELSE [result |-> inner.result, calls |-> inner.calls]

\* poll_read releasing the block as soon as the caller's buffer is filled,
\* before the remainder is stored in the leftover buffer.
AsyncReceiver_poll_read_ReleasesEarly(ctx, read_buf, cap, out) ==
    IF read_buf # <<>>
    THEN LET to_read == Min(cap, Len(read_buf))
         IN  [result |-> RN("Ready", to_read), calls |-> <<>>,
              delivered |-> SubSeq(read_buf, 1, to_read),
              read_buf |-> SubSeq(read_buf, to_read + 1, Len(read_buf))]
    ELSE LET c1 == <<Call("rist_receiver_data_read2", ctx, NULL, out.blk, 0,
                          out.ret)>>
         IN  IF out.ret < 0
             THEN [result |-> R("IoError"), calls |-> c1, delivered |-> <<>>,
                   read_buf |-> read_buf]
             ELSE IF out.ret = 0 \/ out.blk = NULL
             THEN [result |-> R("Pending"), calls |-> c1, delivered |-> <<>>,
                   read_buf |-> read_buf]
             ELSE LET payload == Payload(out.blk)
                      to_read == Min(cap, Len(payload))
                      rest == SubSeq(payload, to_read + 1, Len(payload))
                  IN  [result |-> RN("Ready", to_read),
                       calls |-> c1 \o <<PayloadRead(out.blk)>>
                                 \o DataBlock_drop(out.blk).calls
                                 \o (IF to_read < Len(payload)
                                     THEN <<PayloadRead(out.blk)>> ELSE <<>>),
                       delivered |-> SubSeq(payload, 1, to_read),
                       read_buf |-> read_buf \o rest]

\* poll_read emptying the leftover buffer whatever the caller's capacity.
AsyncReceiver_poll_read_DrainsAll(ctx, read_buf, cap, out) ==
    IF read_buf # <<>>
    THEN LET to_read == Min(cap, Len(read_buf))
         IN  [result |-> RN("Ready", to_read), calls |-> <<>>,
              delivered |-> SubSeq(read_buf, 1, to_read),
              read_buf |-> <<>>]
    ELSE LET c1 == <<Call("rist_receiver_data_read2", ctx, NULL, out.blk, 0,
                          out.ret)>>
         IN  IF out.ret < 0
             THEN [result |-> R("IoError"), calls |-> c1, delivered |-> <<>>,
                   read_buf |-> read_buf]
             ELSE IF out.ret = 0 \/ out.blk = NULL
             THEN [result |-> R("Pending"), calls |-> c1, delivered |-> <<>>,
                   read_buf |-> read_buf]
             ELSE LET payload == Payload(out.blk)
                      to_read == Min(cap, Len(payload))
                      rest == SubSeq(payload, to_read + 1, Len(payload))
                  IN  [result |-> RN("Ready", to_read),
                       calls |-> c1 \o <<PayloadRead(out.blk)>>
                                 \o (IF to_read < Len(payload)
                                     THEN <<PayloadRead(out.blk)>> ELSE <<>>)
                                 \o DataBlock_drop(out.blk).calls,
                       delivered |-> SubSeq(payload, 1, to_read),
                       read_buf |-> read_buf \o rest]

\* poll_read not retaining what did not fit the caller's buffer.
AsyncReceiver_poll_read_DropsRest(ctx, read_buf, cap, out) ==
    IF read_buf # <<>>
    THEN LET to_read == Min(cap, Len(read_buf))
         IN  [result |-> RN("Ready", to_read), calls |-> <<>>,
              delivered |-> SubSeq(read_buf, 1, to_read),
              read_buf |-> SubSeq(read_buf, to_read + 1, Len(read_buf))]
    ELSE LET c1 == <<Call("rist_receiver_data_read2", ctx, NULL, out.blk, 0,
                          out.ret)>>
         IN  IF out.ret < 0
             THEN [result |-> R("IoError"), calls |-> c1, delivered |-> <<>>,
                   read_buf |-> read_buf]
             ELSE IF out.ret = 0 \/ out.blk = NULL
             THEN [result |-> R("Pending"), calls |-> c1, delivered |-> <<>>,
                   read_buf |-> read_buf]
             ELSE LET payload == Payload(out.blk)
                      to_read == Min(cap, Len(payload))
                      rest == SubSeq(payload, to_read + 1, Len(payload))
                  IN  [result |-> RN("Ready", to_read),
                       calls |-> c1 \o <<PayloadRead(out.blk)>>
                                 \o (IF to_read < Len(payload)
                                     THEN <<PayloadRead(out.blk)>> ELSE <<>>)
                                 \o DataBlock_drop(out.blk).calls,
                       delivered |-> SubSeq(payload, 1, to_read),
                       read_buf |-> read_buf]

\* AsyncRead::poll_read for AsyncReceiver.  read_buf is the leftover buffer,
\* cap is buf.remaining(), out the outcome of the zero-timeout native read.
\* The DataBlock built from the handle is dropped when the function returns.
AsyncReceiver_poll_read(ctx, read_buf, cap, out) ==
    IF read_buf # <<>>
    THEN LET to_read == Min(cap, Len(read_buf))
         IN  [result |-> RN("Ready", to_read), calls |-> <<>>,
              delivered |-> SubSeq(read_buf, 1, to_read),
              read_buf |-> SubSeq(read_buf, to_read + 1, Len(read_buf))]
    ELSE LET c1 == <<Call("rist_receiver_data_read2", ctx, NULL, out.blk, 0,
                          out.ret)>>
         IN  IF out.ret < 0
             THEN [result |-> R("IoError"), calls |-> c1, delivered |-> <<>>,
                   read_buf |-> read_buf]
             ELSE IF out.ret = 0 \/ out.blk = NULL
             THEN [result |-> R("Pending"), calls |-> c1, delivered |-> <<>>,
                   read_buf |-> read_buf]
             ELSE LET payload == Payload(out.blk)
                      to_read == Min(cap, Len(payload))
                      rest == SubSeq(payload, to_read + 1, Len(payload))
                  IN  [result |-> RN("Ready", to_read),
                       calls |-> c1 \o <<PayloadRead(out.blk)>>
                                 \o (IF to_read < Len(payload)
                                     THEN <<PayloadRead(out.blk)>> ELSE <<>>)
                                 \o DataBlock_drop(out.blk).calls,
                       delivered |-> SubSeq(payload, 1, to_read),
                       read_buf |-> read_buf \o rest]

\* -------------------------------------------------------- AsyncSender
\* impl Drop for AsyncSender, and the drop of the fields after it.
AsyncSender_drop(ctx) ==
    [result |-> R("Ok"),
     calls |-> <<Call("rist_destroy", ctx, NULL, NULL, 0, 0), StatsDataDrop(ctx)>>]

\* The spawn_blocking closure of Connect::poll.  An early return after the
\* callback is registered drops the local stats_data.
Connect_worker(url, create, parse, peerRet, startRet) ==
    LET c1 == <<Call("rist_sender_create", create.ctx, NULL, NULL, 0, create.ret)>>
        ctx == create.ctx
        destroy == <<Call("rist_destroy", ctx, NULL, NULL, 0, 0), StatsDataDrop(ctx)>>
    IN  IF create.ret # 0 \/ ctx = NULL
        THEN [result |-> R("ContextCreation"), calls |-> c1, made |-> FALSE]
        ELSE LET c2 == Append(c1, Call("rist_stats_callback_set", ctx, NULL,
                                       NULL, 1000, 0))
        IN  IF HasNul(url)
            THEN [result |-> R("NulError"), calls |-> Append(c2, StatsDataDrop(ctx)),
                  made |-> FALSE]
            ELSE LET c3 == Append(c2, Call("rist_parse_address2", NULL,
                                           parse.cfg, NULL, 0, parse.ret))
            IN  IF parse.ret # 0 \/ parse.cfg = NULL
                THEN [result |-> RUrl("UrlParse", url),
                      calls |-> c3 \o destroy, made |-> FALSE]
                ELSE LET c4 == c3 \o
                        << Call("apply_to_peer_config", NULL, parse.cfg, NULL, 0, 0),
                           Call("rist_peer_create", ctx, parse.cfg, NULL, 0, peerRet),
                           Call("rist_peer_config_free2", NULL, parse.cfg, NULL, 0, 0) >>
                IN  IF peerRet # 0
                    THEN [result |-> RUrl("PeerCreation", url),
                          calls |-> c4 \o destroy, made |-> FALSE]
                    ELSE LET c5 == Append(c4, Call("rist_start", ctx, NULL,
                                                   NULL, 0, startRet))
                    IN  IF startRet # 0
                        THEN [result |-> R("Start"), calls |-> c5 \o destroy,
                              made |-> FALSE]
                        ELSE [result |-> R("Ok"), calls |-> c5, made |-> TRUE]

\* AsyncSender::send up to its await: data.to_vec() and spawn_blocking.  The
\* task holds the copy (len bytes); src is the caller's slice, which the
\* caller has again once the future is gone, and asked what it held when
\* send was called.
AsyncSender_send(len) ==
    [state |-> "queued", awaited |-> TRUE, len |-> len, src |-> len,
     asked |-> len, out |-> R("None")]

\* The send closure pointing the descriptor at the caller's slice.
WorkerPayload_Borrowed(task) == task.src

\* The bytes the send closure points the descriptor at: its own Vec.
WorkerPayload(task) == task.len

\* The spawn_blocking closure of AsyncSender::send.
Send_worker(ctx, len, ret) ==
    LET calls == <<WriteCall(ctx, len, 0, ret)>>
    IN  IF ret < 0
        THEN [result |-> R("Send"), calls |-> calls]
        ELSE [result |-> RN("Ok", ret), calls |-> calls]

\* Awaiting a JoinHandle with every failure folded into JoinError.
JoinResult_Flattened(task, out) ==
    IF task = "cancelled" \/ IsErr(out) THEN R("JoinError") ELSE out

\* What awaiting a JoinHandle yields: the task's output, or JoinError when
\* the task was cancelled before it produced one.
JoinResult(task, out) ==
    IF task = "cancelled" THEN R("JoinError") ELSE out

\* poll_write reporting a failed write as zero bytes written.
AsyncSender_poll_write_ZeroOnError(ctx, len, ret) ==
    LET calls == <<WriteCall(ctx, len, 0, ret)>>
    IN  IF ret < 0
        THEN [result |-> RN("Ok", 0), calls |-> calls]
        ELSE [result |-> RN("Ok", ret), calls |-> calls]

\* AsyncWrite::poll_write for AsyncSender.
AsyncSender_poll_write(ctx, len, ret) ==
    LET calls == <<WriteCall(ctx, len, 0, ret)>>
    IN  IF ret < 0
        THEN [result |-> R("IoError"), calls |-> calls]
        ELSE [result |-> RN("Ok", ret), calls |-> calls]

\* AsyncWrite::poll_flush and poll_shutdown for AsyncSender.
AsyncSender_poll_flush(ctx) == [result |-> R("Ok"), calls |-> <<>>]
AsyncSender_poll_shutdown(ctx) == [result |-> R("Ok"), calls |-> <<>>]

\* -------------------------------------------------------- stats bridge
AsyncKinds == {"AsyncReceiver", "AsyncSender"}
StatsTypes == {"receiver_flow", "sender_peer"}

\* The discriminant each callback accepts: RIST_STATS_RECEIVER_FLOW in the
\* receiver's callback, RIST_STATS_SENDER_PEER in the sender's.
StatsType(kind) ==
    IF kind = "AsyncReceiver" THEN "receiver_flow" ELSE "sender_peer"

\* A lock that excludes nobody.
Mutex_lock_Unsynchronized(lock, who) == [acquired |-> TRUE, lock |-> who]

\* Mutex::lock: granted when the mutex is free; the caller waits otherwise.
Mutex_lock(lock, who) ==
    IF lock = "free"
    THEN [acquired |-> TRUE, lock |-> who]
    ELSE [acquired |-> FALSE, lock |-> lock]

\* stats_callback storing whatever the container holds.
stats_callback_AnyShape(arg, stats_type, kind) ==
    IF arg = NULL THEN "return" ELSE "lock"

\* stats_callback up to its lock: where the invocation goes next.  A null
\* context argument returns at once; a matching discriminant converts the
\* payload and goes on to store it; any other goes on to the release.
stats_callback(arg, stats_type, kind) ==
    IF arg = NULL THEN "return"
    ELSE IF stats_type = StatsType(kind) THEN "lock"
    ELSE "free"

\* The invocations that have returned.
Returned(st) == {i \in 1..st.invoked : i # st.cb.id}

\* The last invocation that has stored its snapshot in the cell, 0 if none
\* did: the store is the release of the lock.
HasStored(st, i) ==
    /\ st.shape[i] = "match"
    /\ i = st.cb.id => st.cb.pc = "free"
LastStored(st) ==
    IF \E i \in 1..st.invoked : HasStored(st, i)
    THEN CHOOSE i \in 1..st.invoked :
            /\ HasStored(st, i)
            /\ \A j \in 1..st.invoked : HasStored(st, j) => j <= i
    ELSE 0

\* The last matching invocation that has returned, 0 if none did.
LastCompleted(st) ==
    IF \E i \in Returned(st) : st.shape[i] = "match"
    THEN CHOOSE i \in Returned(st) :
            /\ st.shape[i] = "match"
            /\ \A j \in Returned(st) : st.shape[j] = "match" => j <= i
    ELSE 0

\* A pending recv future dropped with its readiness wait discarded, the
\* reactor's readiness flag cleared along with it.
RecvFuture_drop_ClearsReady(rxs) ==
    [rxs EXCEPT !.fut = "none", !.timeout = NoTimeout, !.ready = FALSE]

\* Dropping a pending recv (or recv_timeout) future: recv is suspended at
\* its only await, readable(), which holds no readiness guard yet and has
\* read nothing from the pipe; rxs is the receiver's async state.
RecvFuture_drop(rxs) ==
    [rxs EXCEPT !.fut = "none", !.timeout = NoTimeout]

\* ------------------------------------------------------------ options
\* Option<T>: None, or Some(v) as the one-element sequence <<v>>.
None == <<>>
Some(v) == <<v>>
Opt(values) == {None} \cup {Some(v) : v \in values}

RecoveryModes == {"Disabled", "Time"}

\* RecoveryMode::to_raw: the native enumerator of a mode.
RecoveryMode_to_raw(mode) ==
    IF mode = "Disabled" THEN "RIST_RECOVERY_MODE_DISABLED"
    ELSE "RIST_RECOVERY_MODE_TIME"

\* duration.as_millis() as u32: the low 32 bits of the u128, kept in the
\* same two-part form (hi is bit 31).
AsU32(ms) == Millis(ms.hi % 2, ms.lo)

\* ReceiverOptions::apply_to_peer_config writing a zero bitrate for an
\* unset option.
ReceiverOptions_apply_to_peer_config_ZeroesUnset(options, config) ==
    LET
        c1 == IF options.recovery_mode # None
              THEN [config EXCEPT !.recovery_mode = RecoveryMode_to_raw(options.recovery_mode[1])]
              ELSE config
        c2 == IF options.recovery_maxbitrate # None
              THEN [c1 EXCEPT !.recovery_maxbitrate = options.recovery_maxbitrate[1]]
              ELSE [c1 EXCEPT !.recovery_maxbitrate = 0]
        c3 == IF options.recovery_length_min # None
              THEN [c2 EXCEPT !.recovery_length_min = AsU32(options.recovery_length_min[1])]
              ELSE c2
        c4 == IF options.recovery_length_max # None
              THEN [c3 EXCEPT !.recovery_length_max = AsU32(options.recovery_length_max[1])]
              ELSE c3
        c5 == IF options.recovery_reorder_buffer # None
              THEN [c4 EXCEPT !.recovery_reorder_buffer = options.recovery_reorder_buffer[1]]
              ELSE c4
        c6 == IF options.recovery_rtt_min # None
              THEN [c5 EXCEPT !.recovery_rtt_min = AsU32(options.recovery_rtt_min[1])]
              ELSE c5
        c7 == IF options.recovery_rtt_max # None
              THEN [c6 EXCEPT !.recovery_rtt_max = AsU32(options.recovery_rtt_max[1])]
              ELSE c6
    IN  c7

\* ReceiverOptions::apply_to_peer_config: one guarded assignment per option;
\* fifo_size is not written to the peer configuration.
ReceiverOptions_apply_to_peer_config(options, config) ==
    LET
        c1 == IF options.recovery_mode # None
              THEN [config EXCEPT !.recovery_mode = RecoveryMode_to_raw(options.recovery_mode[1])]
              ELSE config
        c2 == IF options.recovery_maxbitrate # None
              THEN [c1 EXCEPT !.recovery_maxbitrate = options.recovery_maxbitrate[1]]
              ELSE c1
        c3 == IF options.recovery_length_min # None
              THEN [c2 EXCEPT !.recovery_length_min = AsU32(options.recovery_length_min[1])]
              ELSE c2
        c4 == IF options.recovery_length_max # None
              THEN [c3 EXCEPT !.recovery_length_max = AsU32(options.recovery_length_max[1])]
              ELSE c3
        c5 == IF options.recovery_reorder_buffer # None
              THEN [c4 EXCEPT !.recovery_reorder_buffer = options.recovery_reorder_buffer[1]]
              ELSE c4
        c6 == IF options.recovery_rtt_min # None
              THEN [c5 EXCEPT !.recovery_rtt_min = AsU32(options.recovery_rtt_min[1])]
              ELSE c5
        c7 == IF options.recovery_rtt_max # None
              THEN [c6 EXCEPT !.recovery_rtt_max = AsU32(options.recovery_rtt_max[1])]
              ELSE c6
    IN  c7

\* SenderOptions::apply_to_peer_config.
SenderOptions_apply_to_peer_config(options, config) ==
    LET
        c1 == IF options.recovery_mode # None
              THEN [config EXCEPT !.recovery_mode = RecoveryMode_to_raw(options.recovery_mode[1])]
              ELSE config
        c2 == IF options.recovery_maxbitrate # None
              THEN [c1 EXCEPT !.recovery_maxbitrate = options.recovery_maxbitrate[1]]
              ELSE c1
        c3 == IF options.recovery_length_min # None
              THEN [c2 EXCEPT !.recovery_length_min = AsU32(options.recovery_length_min[1])]
              ELSE c2
        c4 == IF options.recovery_length_max # None
              THEN [c3 EXCEPT !.recovery_length_max = AsU32(options.recovery_length_max[1])]
              ELSE c3
    IN  c4

\* The option objects a caller can build and the native configuration a
\* session has once its address is parsed: the fields of rist_peer_config
\* the options address, other for every field of it they do not, and
\* fifo_size for the output queue depth of the session.
Bitrates == {0, 5000}
Durations == {Millis(0, 50), Millis(2, 50)}
ReceiverOptionSets ==
    [recovery_mode : Opt({"Disabled"}), recovery_maxbitrate : Opt({5000}),
     recovery_length_min : Opt(Durations),
     recovery_length_max : Opt({Millis(0, 50)}),
     recovery_reorder_buffer : Opt({5000}),
     recovery_rtt_min : Opt({Millis(0, 50)}),
     recovery_rtt_max : Opt({Millis(0, 50)}), fifo_size : Opt({2048})]
SenderOptionSets ==
    [recovery_mode : Opt(RecoveryModes), recovery_maxbitrate : Opt(Bitrates),
     recovery_length_min : Opt(Durations),
     recovery_length_max : Opt({Millis(0, 50)})]
ParsedConfig(mode, n) ==
    [recovery_mode |-> mode, recovery_maxbitrate |-> n,
     recovery_length_min |-> Millis(0, n), recovery_length_max |-> Millis(0, n),
     recovery_reorder_buffer |-> n, recovery_rtt_min |-> Millis(0, n),
     recovery_rtt_max |-> Millis(0, n), fifo_size |-> n, other |-> n]
ParsedConfigs ==
    { ParsedConfig("RIST_RECOVERY_MODE_TIME", 1000),
      ParsedConfig("RIST_RECOVERY_MODE_UNCONFIGURED", 7) }
NoPcfg ==
    [kind |-> "none", options |-> None, config |-> None, parsed |-> None,
     applied |-> FALSE]

\* No loopback pair: the sessions of the other specifications stand alone.
NoLink ==
    [mode |-> "none", started |-> FALSE, sent |-> <<>>, wire |-> <<>>,
     fifo |-> <<>>, held |-> <<>>, got |-> <<>>, pipe |-> 0, ready |-> FALSE]

\* ------------------------------------------------------------- state
Obj(kind, status, started) ==
    [kind |-> kind, status |-> status, started |-> started]

NoResult == R("None")
IdleTask == [state |-> "idle", awaited |-> FALSE, len |-> 0, src |-> 0,
             asked |-> 0, out |-> NoResult]
NoConn == [fut |-> "none", task |-> "none", url |-> NoUrl, out |-> NoResult,
           made |-> FALSE]
\* native, returned, taken and stream are histories: the handles the engine
\* handed to receive calls, the handles those calls returned, the handles
\* poll_read took, and the bytes poll_read delivered.
NoRx == [pipe |-> 0, ready |-> FALSE, queue |-> 0, fut |-> "none",
         timeout |-> NoTimeout, read_buf |-> <<>>,
         native |-> <<>>, returned |-> <<>>, taken |-> <<>>, stream |-> <<>>]

\* The histories of session s after a receive call with outcome r.
Received(s, r) ==
    [rx EXCEPT ![s].native = @ \o HandedOutBy(r.calls),
               ![s].returned = @ \o ReturnedBy(r)]

\* The stats cell of an async session: Arc<Mutex<Option<Stats>>>.  A
\* snapshot is kept as two of its fields, each holding the number of the
\* callback invocation whose container it was converted from; None is 0
\* in both.
Snapshot(id) == [a |-> id, b |-> id]
IdleCallback == [pc |-> "idle", id |-> 0]
IdleReader == [pc |-> "idle", a |-> 0]
NoStats ==
    [lock |-> "free", cell |-> Snapshot(0), cb |-> IdleCallback,
     rd |-> IdleReader, ret |-> Snapshot(0), waited |-> FALSE,
     invoked |-> 0,
     shape |-> [i \in CallbackIds |-> "none"],
     frees |-> [i \in CallbackIds |-> 0]]

NoCtxs ==
    [s \in Sessions |->
        [state |-> "unused", destroys |-> 0, late |-> {},
         started |-> FALSE, peers |-> FALSE, cell |-> "none"]]
NoCfgs == [c \in CfgHandles |-> [state |-> "unused", frees |-> 0, late |-> FALSE]]
NoBlks ==
    [b \in BlockHandles |-> [state |-> "unused", frees |-> 0, late |-> FALSE]]

Init ==
    /\ sess = [s \in Sessions |-> Obj("none", "none", FALSE)]
    /\ ctxs = NoCtxs
    /\ cfgs = NoCfgs
    /\ blks = NoBlks
    /\ conn = [s \in Sessions |-> NoConn]
    /\ sendTasks = [s \in Sessions |-> [t \in SendSlots |-> IdleTask]]
    /\ rx = [s \in Sessions |-> NoRx]
    /\ stats = [s \in Sessions |-> NoStats]
    /\ pcfg = NoPcfg
    /\ link = NoLink
    /\ lastCall = Step(0, "init", NoUrl, NoTimeout, NoResult, <<>>)

Live(s, kind) == sess[s].kind = kind /\ sess[s].status = "live"

\* ----------------------------------------------- blocking Sender actions
SenderNew(s) ==
    /\ sess[s].kind = "none"
    /\ \E out \in CreateOutcomes(s) :
        LET r == Sender_new(out) IN
        /\ sess' = [sess EXCEPT ![s] =
                     Obj("Sender", IF r.made THEN "live" ELSE "failed", FALSE)]
        /\ Record(s, "new", NoUrl, NoTimeout, r)
    /\ UNCHANGED <<link, pcfg, stats, conn, sendTasks, rx>>

SenderAddPeer(s) ==
    /\ Live(s, "Sender")
    /\ \E url \in Urls, parse \in ParseOutcomes, peerRet \in RetCodes :
        Record(s, "add_peer", url, NoTimeout,
               Sender_add_peer(s, url, parse, peerRet))
    /\ UNCHANGED <<link, pcfg, stats, sess, conn, sendTasks, rx>>

SenderStart(s) ==
    /\ Live(s, "Sender")
    /\ \E ret \in RetCodes :
        LET r == Sender_start(s, sess[s].started, ret) IN
        /\ sess' = [sess EXCEPT ![s].started = r.started]
        /\ Record(s, "start", NoUrl, NoTimeout, r)
    /\ UNCHANGED <<link, pcfg, stats, conn, sendTasks, rx>>

SenderSend(s) ==
    /\ Live(s, "Sender")
    /\ \E len \in PayloadLens : \E ret \in WriteOutcomes(len) :
        RecordSend(s, "send", len, 0, Sender_send(s, sess[s].started, len, ret))
    /\ UNCHANGED <<link, pcfg, stats, sess, conn, sendTasks, rx>>

SenderSendWithFlowId(s) ==
    /\ Live(s, "Sender")
    /\ \E len \in PayloadLens, flow_id \in {0, 42} : \E ret \in WriteOutcomes(len) :
        RecordSend(s, "send_with_flow_id", len, flow_id,
                   Sender_send_with_flow_id(s, sess[s].started, len, flow_id, ret))
    /\ UNCHANGED <<link, pcfg, stats, sess, conn, sendTasks, rx>>

SenderDrop(s) ==
    /\ Live(s, "Sender")
    /\ sess' = [sess EXCEPT ![s].status = "dropped"]
    /\ Record(s, "drop", NoUrl, NoTimeout, Sender_drop(s))
    /\ UNCHANGED <<link, pcfg, stats, conn, sendTasks, rx>>

\* --------------------------------------------- blocking Receiver actions
ReceiverNew(s) ==
    /\ sess[s].kind = "none"
    /\ \E out \in CreateOutcomes(s) :
        LET r == Receiver_new(out) IN
        /\ sess' = [sess EXCEPT ![s] =
                     Obj("Receiver", IF r.made THEN "live" ELSE "failed", FALSE)]
        /\ Record(s, "new", NoUrl, NoTimeout, r)
    /\ UNCHANGED <<link, pcfg, stats, conn, sendTasks, rx>>

ReceiverAddPeer(s) ==
    /\ Live(s, "Receiver")
    /\ \E url \in Urls, parse \in ParseOutcomes, peerRet \in RetCodes :
        Record(s, "add_peer", url, NoTimeout,
               Receiver_add_peer(s, url, parse, peerRet))
    /\ UNCHANGED <<link, pcfg, stats, sess, conn, sendTasks, rx>>

ReceiverStart(s) ==
    /\ Live(s, "Receiver")
    /\ \E ret \in RetCodes :
        LET r == Receiver_start(s, sess[s].started, ret) IN
        /\ sess' = [sess EXCEPT ![s].started = r.started]
        /\ Record(s, "start", NoUrl, NoTimeout, r)
    /\ UNCHANGED <<link, pcfg, stats, conn, sendTasks, rx>>

ReceiverRead(s) ==
    /\ Live(s, "Receiver")
    /\ \E timeout \in Timeouts, out \in ReadOutcomes :
        LET r == Receiver_read(s, sess[s].started, timeout, out) IN
        /\ rx' = Received(s, r)
        /\ Record(s, "read", NoUrl, timeout, r)
    /\ UNCHANGED <<link, pcfg, stats, sess, conn, sendTasks>>

ReceiverDrop(s) ==
    /\ Live(s, "Receiver")
    /\ sess' = [sess EXCEPT ![s].status = "dropped"]
    /\ Record(s, "drop", NoUrl, NoTimeout, Receiver_drop(s))
    /\ UNCHANGED <<link, pcfg, stats, conn, sendTasks, rx>>

\* The caller drops a DataBlock it was handed.
DataBlockDrop(b) ==
    /\ blks[b].state = "live"
    /\ Record(0, "block_drop", NoUrl, NoTimeout, DataBlock_drop(b))
    /\ UNCHANGED <<link, pcfg, stats, sess, conn, sendTasks, rx>>

\* The caller reads the payload of a DataBlock it still owns; the borrow
\* ends before the block can be dropped.
DataBlockPayload(b) ==
    /\ blks[b].state = "live"
    /\ Record(0, "payload", NoUrl, NoTimeout, DataBlock_payload(b))
    /\ UNCHANGED <<link, pcfg, stats, sess, conn, sendTasks, rx>>

\* ------------------------------------------------ AsyncReceiver actions
AsyncReceiverBind(s) ==
    /\ sess[s].kind = "none"
    /\ \E url \in Urls, env \in BindEnvs(s), parse \in ParseOutcomes,
          peerRet \in RetCodes, startRet \in RetCodes :
        LET r == AsyncReceiver_bind_with_options(url, env, parse, peerRet, startRet)
        IN  /\ sess' = [sess EXCEPT ![s] =
                         Obj("AsyncReceiver",
                             IF r.made THEN "live" ELSE "failed", FALSE)]
            /\ Record(s, "bind_with_options", url, NoTimeout, r)
    /\ UNCHANGED <<link, pcfg, stats, conn, sendTasks, rx>>

\* Blocks queued in the native fifos and not yet handed out.
RECURSIVE QueuedIn(_)
QueuedIn(S) ==
    IF S = {} THEN 0
    ELSE LET s == CHOOSE x \in S : TRUE IN rx[s].queue + QueuedIn(S \ {s})
HandedOut == Cardinality({b \in BlockHandles : blks[b].state # "unused"})

\* The native engine queues a received block and writes one byte to the
\* notification fd; the reactor marks the read end readable.
NativeDataArrives(s) ==
    /\ Live(s, "AsyncReceiver")
    /\ ctxs[s].state = "live"
    /\ QueuedIn(Sessions) + HandedOut < MaxBlocks
    /\ rx' = [rx EXCEPT ![s].queue = @ + 1, ![s].pipe = @ + 1, ![s].ready = TRUE]
    /\ lastCall' = Step(s, "native_data", NoUrl, NoTimeout, NoResult, <<>>)
    /\ UNCHANGED <<link, pcfg, stats, sess, ctxs, cfgs, blks, conn, sendTasks>>

\* What a zero-timeout native read yields with q blocks queued.
TryReadOutcomes(q) ==
    IF q > 0
    THEN { [ret |-> -1, blk |-> NULL], [ret |-> 1, blk |-> NULL],
           [ret |-> 1, blk |-> FreshBlk] }
    ELSE { [ret |-> -1, blk |-> NULL], [ret |-> 0, blk |-> NULL] }

Dequeue(q, r) == IF r.result.kind = "OkSome" THEN q - 1 ELSE q

AsyncReceiverTryRecv(s) ==
    /\ Live(s, "AsyncReceiver")
    /\ \E out \in TryReadOutcomes(rx[s].queue) :
        LET r == AsyncReceiver_try_recv(s, out) IN
        /\ rx' = [Received(s, r) EXCEPT ![s].queue = Dequeue(@, r)]
        /\ Record(s, "try_recv", NoUrl, NoTimeout, r)
    /\ UNCHANGED <<link, pcfg, stats, sess, conn, sendTasks>>

\* recv() or recv_timeout(timeout) is called: the future now waits for the
\* notification pipe to become readable.
AsyncReceiverRecvStart(s) ==
    /\ Live(s, "AsyncReceiver")
    /\ rx[s].fut = "none"
    /\ \/ rx' = [rx EXCEPT ![s].fut = "recv", ![s].timeout = NoTimeout]
       \/ \E timeout \in RecvTimeouts :
            rx' = [rx EXCEPT ![s].fut = "recv_timeout", ![s].timeout = timeout]
    /\ lastCall' = Step(s, rx'[s].fut, NoUrl, rx'[s].timeout, R("Pending"), <<>>)
    /\ UNCHANGED <<link, pcfg, stats, sess, ctxs, cfgs, blks, conn, sendTasks>>

\* The pending future is polled with the pipe readable (or the readiness
\* wait failing) and runs to completion.
AsyncReceiverRecvPoll(s) ==
    /\ Live(s, "AsyncReceiver")
    /\ rx[s].fut \in {"recv", "recv_timeout"}
    /\ \E readableOk \in BOOLEAN, consumeOk \in BOOLEAN,
          out \in TryReadOutcomes(rx[s].queue) :
        /\ readableOk => rx[s].ready
        /\ LET inner == AsyncReceiver_recv(s, readableOk, consumeOk, out)
               r == IF rx[s].fut = "recv" THEN inner
                    ELSE AsyncReceiver_recv_timeout(rx[s].timeout, FALSE, inner)
           IN  /\ rx' = [Received(s, r) EXCEPT
                    ![s].fut = "none", ![s].timeout = NoTimeout,
                    ![s].pipe = IF inner.drained THEN 0 ELSE @,
                    ![s].ready = IF inner.cleared THEN FALSE ELSE @,
                    ![s].queue = Dequeue(@, inner)]
               /\ Record(s, rx[s].fut, NoUrl, rx[s].timeout, r)
    /\ UNCHANGED <<link, pcfg, stats, sess, conn, sendTasks>>

\* The deadline of recv_timeout elapses while recv is still waiting: the
\* timeout drops the pending recv future.
AsyncReceiverRecvDeadline(s) ==
    /\ Live(s, "AsyncReceiver")
    /\ rx[s].fut = "recv_timeout"
    /\ ~rx[s].ready
    /\ rx' = [rx EXCEPT ![s] = RecvFuture_drop(@)]
    /\ Record(s, "recv_timeout", NoUrl, rx[s].timeout,
              AsyncReceiver_recv_timeout(rx[s].timeout, TRUE, NoResult))
    /\ UNCHANGED <<link, pcfg, stats, sess, conn, sendTasks>>

\* The caller drops the pending recv future.
AsyncReceiverRecvCancel(s) ==
    /\ Live(s, "AsyncReceiver")
    /\ rx[s].fut \in {"recv", "recv_timeout"}
    /\ rx' = [rx EXCEPT ![s] = RecvFuture_drop(@)]
    /\ lastCall' = Step(s, "recv_cancel", NoUrl, NoTimeout, NoResult, <<>>)
    /\ UNCHANGED <<link, pcfg, stats, sess, ctxs, cfgs, blks, conn, sendTasks>>

\* The stream reader polls: poll_read takes the receiver by exclusive
\* reference, so no recv future is pending.
AsyncReceiverPollRead(s) ==
    /\ Live(s, "AsyncReceiver")
    /\ rx[s].fut = "none"
    /\ \E cap \in Capacities, out \in TryReadOutcomes(rx[s].queue) :
        LET r == AsyncReceiver_poll_read(s, rx[s].read_buf, cap, out) IN
        /\ rx' = [rx EXCEPT
              ![s].read_buf = r.read_buf,
              ![s].taken = @ \o HandedOutBy(r.calls),
              ![s].stream = @ \o r.delivered,
              ![s].queue = IF CallsTo(r.calls, {"rist_receiver_data_block_free2"}) # {}
                           THEN @ - 1 ELSE @]
        /\ RecordSend(s, "poll_read", cap, 0, r)
    /\ UNCHANGED <<link, pcfg, stats, sess, conn, sendTasks>>

\* The receiver is dropped; no future borrows it any more.
AsyncReceiverDrop(s) ==
    /\ Live(s, "AsyncReceiver")
    /\ rx[s].fut = "none"
    /\ sess' = [sess EXCEPT ![s].status = "dropped"]
    /\ Record(s, "drop", NoUrl, NoTimeout, AsyncReceiver_drop(s))
    /\ UNCHANGED <<link, pcfg, stats, conn, sendTasks, rx>>

\* -------------------------------------------------- AsyncSender actions
\* AsyncSender::connect_with_options: builds the Connect future, Idle.
AsyncSenderConnect(s) ==
    /\ sess[s].kind = "none"
    /\ \E url \in Urls :
        /\ conn' = [conn EXCEPT ![s] = [NoConn EXCEPT !.fut = "Idle", !.url = url]]
        /\ lastCall' = Step(s, "connect", url, NoTimeout, NoResult, <<>>)
    /\ sess' = [sess EXCEPT ![s] = Obj("AsyncSender", "none", FALSE)]
    /\ UNCHANGED <<link, pcfg, stats, ctxs, cfgs, blks, sendTasks, rx>>

\* Connect::poll.  Idle: spawn the worker and poll its handle.  Busy: poll
\* the handle; a finished task hands its output to the caller.
ConnectPoll(s) ==
    /\ conn[s].fut \in {"Idle", "Busy"}
    /\ IF conn[s].fut = "Idle"
       THEN /\ conn' = [conn EXCEPT ![s].fut = "Busy", ![s].task = "queued"]
            /\ lastCall' = Step(s, "connect_poll", conn[s].url, NoTimeout,
                                R("Pending"), <<>>)
            /\ UNCHANGED sess
       ELSE IF conn[s].task = "queued"
       THEN /\ lastCall' = Step(s, "connect_poll", conn[s].url, NoTimeout,
                                R("Pending"), <<>>)
            /\ UNCHANGED <<conn, sess>>
       ELSE /\ conn' = [conn EXCEPT ![s].fut = "Ready", ![s].task = "taken"]
            /\ lastCall' = Step(s, "connect_poll", conn[s].url, NoTimeout,
                                JoinResult(conn[s].task, conn[s].out), <<>>)
            /\ sess' = [sess EXCEPT ![s].status =
                          IF conn[s].task = "done" /\ conn[s].made
                          THEN "live" ELSE "failed"]
    /\ UNCHANGED <<link, pcfg, stats, ctxs, cfgs, blks, sendTasks, rx>>

\* A worker thread runs the connect closure.  With the JoinHandle already
\* dropped the runtime drops the output, and with it a built AsyncSender.
ConnectWorkerRun(s) ==
    /\ conn[s].task = "queued"
    /\ \E create \in CreateOutcomes(s), parse \in ParseOutcomes,
          peerRet \in RetCodes, startRet \in RetCodes :
        LET w == Connect_worker(conn[s].url, create, parse, peerRet, startRet)
            detached == conn[s].fut = "Dropped"
            r == IF detached /\ w.made
                 THEN [result |-> w.result,
                       calls |-> w.calls \o AsyncSender_drop(s).calls]
                 ELSE [result |-> w.result, calls |-> w.calls]
        IN  /\ conn' = [conn EXCEPT ![s].task = "done", ![s].out = w.result,
                                    ![s].made = w.made /\ ~detached]
            /\ sess' = [sess EXCEPT ![s].status =
                          IF detached THEN (IF w.made THEN "dropped" ELSE "failed")
                          ELSE @]
            /\ Record(s, "connect_worker", conn[s].url, NoTimeout, r)
    /\ UNCHANGED <<link, pcfg, stats, sendTasks, rx>>

\* The runtime shuts down before the queued closure ran: it is dropped.
ConnectTaskCancel(s) ==
    /\ conn[s].task = "queued"
    /\ conn' = [conn EXCEPT ![s].task = "cancelled"]
    /\ lastCall' = Step(s, "connect_cancel", conn[s].url, NoTimeout, NoResult, <<>>)
    /\ UNCHANGED <<link, pcfg, stats, sess, ctxs, cfgs, blks, sendTasks, rx>>

\* The caller drops the Connect future before taking its output.
ConnectDrop(s) ==
    /\ conn[s].fut \in {"Idle", "Busy"}
    /\ LET held == conn[s].task = "done" /\ conn[s].made
           r == IF held THEN AsyncSender_drop(s)
                ELSE [result |-> NoResult, calls |-> <<>>]
       IN  /\ conn' = [conn EXCEPT ![s].fut = "Dropped", ![s].made = FALSE]
           /\ sess' = [sess EXCEPT ![s].status =
                         IF held THEN "dropped"
                         ELSE IF conn[s].task = "queued" THEN @ ELSE "failed"]
           /\ Record(s, "connect_drop", conn[s].url, NoTimeout, r)
    /\ UNCHANGED <<link, pcfg, stats, sendTasks, rx>>

\* AsyncSender::send, first poll: copy the bytes, spawn the worker, await.
AsyncSenderSend(s, t) ==
    /\ Live(s, "AsyncSender")
    /\ sendTasks[s][t].state = "idle"
    /\ \E len \in PayloadLens :
        sendTasks' = [sendTasks EXCEPT ![s][t] = AsyncSender_send(len)]
    /\ lastCall' = Step(s, "send", NoUrl, NoTimeout, R("Pending"), <<>>)
    /\ UNCHANGED <<link, pcfg, stats, sess, ctxs, cfgs, blks, conn, rx>>

\* A worker thread runs the send closure on its copy of the context pointer.
SendWorkerRun(s, t) ==
    /\ sendTasks[s][t].state = "queued"
    /\ \E ret \in WriteOutcomes(WorkerPayload(sendTasks[s][t])) :
        LET r == Send_worker(s, WorkerPayload(sendTasks[s][t]), ret) IN
        /\ sendTasks' = [sendTasks EXCEPT ![s][t] =
              IF sendTasks[s][t].awaited
              THEN [@ EXCEPT !.state = "done", !.out = r.result]
              ELSE IdleTask]
        /\ Record(s, "send_worker", NoUrl, NoTimeout, r)
    /\ UNCHANGED <<link, pcfg, stats, sess, conn, rx>>

SendTaskCancel(s, t) ==
    /\ sendTasks[s][t].state = "queued"
    /\ sendTasks' = [sendTasks EXCEPT ![s][t] =
          IF sendTasks[s][t].awaited THEN [@ EXCEPT !.state = "cancelled"]
          ELSE IdleTask]
    /\ lastCall' = Step(s, "send_cancel", NoUrl, NoTimeout, NoResult, <<>>)
    /\ UNCHANGED <<link, pcfg, stats, sess, ctxs, cfgs, blks, conn, rx>>

\* The send future is polled after its task ended: the await returns.
AsyncSenderSendPoll(s, t) ==
    /\ sendTasks[s][t].awaited
    /\ sendTasks[s][t].state \in {"done", "cancelled"}
    /\ sendTasks' = [sendTasks EXCEPT ![s][t] = IdleTask]
    /\ lastCall' = Step(s, "send", NoUrl, NoTimeout,
                        JoinResult(sendTasks[s][t].state, sendTasks[s][t].out), <<>>)
    /\ UNCHANGED <<link, pcfg, stats, sess, ctxs, cfgs, blks, conn, rx>>

\* With the send future gone the borrow of the caller's buffer has ended:
\* the caller overwrites or resizes it while the task is still queued.
CallerReusesBuffer(s, t) ==
    /\ sendTasks[s][t].state = "queued"
    /\ ~sendTasks[s][t].awaited
    /\ \E len \in PayloadLens \ {sendTasks[s][t].src} :
        sendTasks' = [sendTasks EXCEPT ![s][t].src = len]
    /\ lastCall' = Step(s, "buffer_reuse", NoUrl, NoTimeout, NoResult, <<>>)
    /\ UNCHANGED <<link, pcfg, stats, sess, ctxs, cfgs, blks, conn, rx>>

\* The caller drops the send future while it awaits; the task is detached.
AsyncSenderSendDrop(s, t) ==
    /\ sendTasks[s][t].awaited
    /\ sendTasks' = [sendTasks EXCEPT ![s][t] =
          IF sendTasks[s][t].state = "queued"
          THEN [@ EXCEPT !.awaited = FALSE] ELSE IdleTask]
    /\ lastCall' = Step(s, "send_drop", NoUrl, NoTimeout, NoResult, <<>>)
    /\ UNCHANGED <<link, pcfg, stats, sess, ctxs, cfgs, blks, conn, rx>>

AsyncSenderPollWrite(s) ==
    /\ Live(s, "AsyncSender")
    /\ \E len \in PayloadLens : \E ret \in WriteOutcomes(len) :
        RecordSend(s, "poll_write", len, 0, AsyncSender_poll_write(s, len, ret))
    /\ UNCHANGED <<link, pcfg, stats, sess, conn, sendTasks, rx>>

AsyncSenderPollFlush(s) ==
    /\ Live(s, "AsyncSender")
    /\ Record(s, "poll_flush", NoUrl, NoTimeout, AsyncSender_poll_flush(s))
    /\ UNCHANGED <<link, pcfg, stats, sess, conn, sendTasks, rx>>

AsyncSenderPollShutdown(s) ==
    /\ Live(s, "AsyncSender")
    /\ Record(s, "poll_shutdown", NoUrl, NoTimeout, AsyncSender_poll_shutdown(s))
    /\ UNCHANGED <<link, pcfg, stats, sess, conn, sendTasks, rx>>

\* The sender is dropped; no send future borrows it any more.
AsyncSenderDrop(s) ==
    /\ Live(s, "AsyncSender")
    /\ \A t \in SendSlots : ~sendTasks[s][t].awaited
    /\ sess' = [sess EXCEPT ![s].status = "dropped"]
    /\ Record(s, "drop", NoUrl, NoTimeout, AsyncSender_drop(s))
    /\ UNCHANGED <<link, pcfg, stats, conn, sendTasks, rx>>

\* ----------------------------------------------------- specification
Next ==
    \/ \E s \in Sessions :
        \/ SenderNew(s) \/ SenderAddPeer(s) \/ SenderStart(s) \/ SenderSend(s)
        \/ SenderSendWithFlowId(s) \/ SenderDrop(s)
        \/ ReceiverNew(s) \/ ReceiverAddPeer(s) \/ ReceiverStart(s)
        \/ ReceiverRead(s) \/ ReceiverDrop(s)
        \/ AsyncReceiverBind(s) \/ NativeDataArrives(s) \/ AsyncReceiverTryRecv(s)
        \/ AsyncReceiverRecvStart(s) \/ AsyncReceiverRecvPoll(s)
        \/ AsyncReceiverRecvDeadline(s) \/ AsyncReceiverRecvCancel(s)
        \/ AsyncReceiverPollRead(s) \/ AsyncReceiverDrop(s)
        \/ AsyncSenderConnect(s) \/ ConnectPoll(s) \/ ConnectWorkerRun(s)
        \/ ConnectTaskCancel(s) \/ ConnectDrop(s)
        \/ AsyncSenderPollWrite(s) \/ AsyncSenderPollFlush(s)
        \/ AsyncSenderPollShutdown(s) \/ AsyncSenderDrop(s)
        \/ \E t \in SendSlots :
            \/ AsyncSenderSend(s, t) \/ SendWorkerRun(s, t) \/ SendTaskCancel(s, t)
            \/ AsyncSenderSendPoll(s, t) \/ AsyncSenderSendDrop(s, t)
            \/ CallerReusesBuffer(s, t)
    \/ \E b \in BlockHandles : DataBlockDrop(b) \/ DataBlockPayload(b)

Spec == Init /\ [][Next]_vars

\* --------------------------------------------------- stats bridge actions
StatsStep(s, result, calls) ==
    /\ lastCall' = Step(s, "stats_callback", NoUrl, NoTimeout, result, calls)
    /\ UNCHANGED <<link, pcfg, sess, ctxs, cfgs, blks, conn, sendTasks, rx>>

ReaderStep(s, result) ==
    /\ lastCall' = Step(s, "raw_stats", NoUrl, NoTimeout, result, <<>>)
    /\ UNCHANGED <<link, pcfg, sess, ctxs, cfgs, blks, conn, sendTasks, rx>>

\* The native engine's thread invokes the callback with a fresh container.
\* arg is the pointer it passes as the context argument.
StatsCallbackEnter(s) ==
    /\ sess[s].kind \in AsyncKinds /\ sess[s].status = "live"
    /\ ctxs[s].state = "live"
    /\ stats[s].cb.pc = "idle"
    /\ stats[s].invoked < MaxCallbacks
    /\ \E arg \in {NULL, s}, stats_type \in StatsTypes :
        LET id == stats[s].invoked + 1
            next == stats_callback(arg, stats_type, sess[s].kind)
        IN  /\ stats' = [stats EXCEPT
                  ![s].invoked = id,
                  ![s].shape[id] = IF arg = NULL THEN "null"
                                   ELSE IF stats_type = StatsType(sess[s].kind)
                                   THEN "match" ELSE "mismatch",
                  ![s].cb = IF next = "return" THEN IdleCallback
                            ELSE [pc |-> next, id |-> id]]
            /\ StatsStep(s, IF next = "return" THEN R("Returned")
                             ELSE R("Pending"), <<>>)

\* stats_arc.lock() is granted and the first field is written.
StatsCallbackLock(s) ==
    /\ stats[s].cb.pc = "lock"
    /\ LET l == Mutex_lock(stats[s].lock, "callback")
       IN  /\ l.acquired
           /\ stats' = [stats EXCEPT ![s].lock = l.lock,
                                      ![s].cell.a = stats[s].cb.id,
                                      ![s].cb.pc = "write"]
    /\ StatsStep(s, R("Pending"), <<>>)

\* The rest of *guard = Some(snapshot) is written and the guard dropped.
StatsCallbackStore(s) ==
    /\ stats[s].cb.pc = "write"
    /\ stats' = [stats EXCEPT ![s].cell.b = stats[s].cb.id,
                               ![s].lock = "free",
                               ![s].cb.pc = "free"]
    /\ StatsStep(s, R("Pending"), <<>>)

\* rist_stats_free(stats_container), and the callback returns.
StatsCallbackFree(s) ==
    /\ stats[s].cb.pc = "free"
    /\ stats' = [stats EXCEPT ![s].frees[stats[s].cb.id] = @ + 1,
                               ![s].cb = IdleCallback]
    /\ StatsStep(s, R("Returned"),
                 <<Call("rist_stats_free", NULL, NULL, NULL, stats[s].cb.id, 0)>>)

\* raw_stats on an application thread: self.stats.lock().  With the mutex
\* held the thread waits for it.
RawStatsCall(s) ==
    /\ sess[s].kind \in AsyncKinds /\ sess[s].status = "live"
    /\ stats[s].rd.pc = "idle"
    /\ LET l == Mutex_lock(stats[s].lock, "reader")
       IN  stats' = [stats EXCEPT
              ![s].lock = l.lock,
              ![s].waited = ~l.acquired,
              ![s].rd = IF l.acquired
                        THEN [pc |-> "clone", a |-> stats[s].cell.a]
                        ELSE [pc |-> "waiting", a |-> 0]]
    /\ ReaderStep(s, R("Pending"))

\* The waiting reader is granted the mutex.
RawStatsWake(s) ==
    /\ stats[s].rd.pc = "waiting"
    /\ LET l == Mutex_lock(stats[s].lock, "reader")
       IN  /\ l.acquired
           /\ stats' = [stats EXCEPT
                  ![s].lock = l.lock,
                  ![s].rd = [pc |-> "clone", a |-> stats[s].cell.a]]
    /\ ReaderStep(s, R("Pending"))

\* guard.clone() is completed, the guard dropped and the clone returned.
RawStatsReturn(s) ==
    /\ stats[s].rd.pc = "clone"
    /\ LET snap == [a |-> stats[s].rd.a, b |-> stats[s].cell.b]
       IN  /\ stats' = [stats EXCEPT ![s].lock = "free",
                                      ![s].rd = IdleReader,
                                      ![s].ret = snap]
           /\ ReaderStep(s, IF snap = Snapshot(0) THEN R("None")
                            ELSE RN("Some", snap.a))

StatsNext ==
    \E s \in Sessions :
        \/ StatsCallbackEnter(s) \/ StatsCallbackLock(s)
        \/ StatsCallbackStore(s) \/ StatsCallbackFree(s)
        \/ RawStatsCall(s) \/ RawStatsWake(s) \/ RawStatsReturn(s)

\* What a successful construction of an async session of this kind issues.
Built(kind, s) ==
    IF kind = "AsyncReceiver"
    THEN AsyncReceiver_bind_with_options(
             NoUrl,
             [create |-> [ret |-> 0, ctx |-> s], pipeOk |-> TRUE,
              notifyRet |-> 0, asyncFdOk |-> TRUE],
             [ret |-> 0, cfg |-> 1], 0, 0)
    ELSE Connect_worker(NoUrl, [ret |-> 0, ctx |-> s], [ret |-> 0, cfg |-> 1], 0, 0)

\* One async session, constructed and started, with its callback registered.
StatsInit ==
    \E kind \in AsyncKinds, s0 \in Sessions :
        LET r == Built(kind, s0) IN
        /\ sess = [s \in Sessions |->
                     IF s = s0 THEN Obj(kind, "live", FALSE)
                     ELSE Obj("none", "none", FALSE)]
        /\ ctxs = RunCtxCalls(NoCtxs, r.calls)
        /\ cfgs = RunCfgCalls(NoCfgs, r.calls)
        /\ blks = NoBlks
        /\ conn = [s \in Sessions |->
                     IF s = s0 /\ kind = "AsyncSender"
                     THEN [NoConn EXCEPT !.fut = "Ready", !.task = "taken",
                                         !.out = r.result, !.made = TRUE]
                     ELSE NoConn]
        /\ sendTasks = [s \in Sessions |-> [t \in SendSlots |-> IdleTask]]
        /\ rx = [s \in Sessions |-> NoRx]
        /\ stats = [s \in Sessions |-> NoStats]
        /\ pcfg = NoPcfg
        /\ link = NoLink
        /\ lastCall =
              IF kind = "AsyncSender"
              THEN Step(s0, "connect_poll", NoUrl, NoTimeout, r.result, <<>>)
              ELSE Step(s0, "bind_with_options", NoUrl, NoTimeout, r.result, r.calls)

StatsSpec == StatsInit /\ [][StatsNext]_vars

\* -------------------------------------------------------- options actions
\* An options object and a freshly parsed peer configuration.
OptionsInit ==
    /\ sess = [s \in Sessions |-> Obj("none", "none", FALSE)]
    /\ ctxs = NoCtxs
    /\ cfgs = NoCfgs
    /\ blks = NoBlks
    /\ conn = [s \in Sessions |-> NoConn]
    /\ sendTasks = [s \in Sessions |-> [t \in SendSlots |-> IdleTask]]
    /\ rx = [s \in Sessions |-> NoRx]
    /\ stats = [s \in Sessions |-> NoStats]
    /\ link = NoLink
    /\ lastCall = Step(0, "init", NoUrl, NoTimeout, NoResult, <<>>)
    /\ \E config \in ParsedConfigs :
        \/ \E options \in ReceiverOptionSets :
              pcfg = [kind |-> "ReceiverOptions", options |-> options,
                      config |-> config, parsed |-> config, applied |-> FALSE]
        \/ \E options \in SenderOptionSets :
              pcfg = [kind |-> "SenderOptions", options |-> options,
                      config |-> config, parsed |-> config, applied |-> FALSE]

ReceiverOptionsApply ==
    /\ pcfg.kind = "ReceiverOptions"
    /\ ~pcfg.applied
    /\ pcfg' = [pcfg EXCEPT
          !.config = ReceiverOptions_apply_to_peer_config(pcfg.options, @),
          !.applied = TRUE]
    /\ lastCall' = Step(0, "apply_to_peer_config", NoUrl, NoTimeout, R("Ok"), <<>>)
    /\ UNCHANGED <<link, stats, sess, ctxs, cfgs, blks, conn, sendTasks, rx>>

SenderOptionsApply ==
    /\ pcfg.kind = "SenderOptions"
    /\ ~pcfg.applied
    /\ pcfg' = [pcfg EXCEPT
          !.config = SenderOptions_apply_to_peer_config(pcfg.options, @),
          !.applied = TRUE]
    /\ lastCall' = Step(0, "apply_to_peer_config", NoUrl, NoTimeout, R("Ok"), <<>>)
    /\ UNCHANGED <<link, stats, sess, ctxs, cfgs, blks, conn, sendTasks, rx>>

OptionsNext == ReceiverOptionsApply \/ SenderOptionsApply

OptionsSpec == OptionsInit /\ [][OptionsNext]_vars

\* An AsyncReceiver as a successful bind handed it to the caller.
BoundInit ==
    StatsInit /\ \A s \in Sessions : sess[s].kind # "AsyncSender"

\* The operations on a bound AsyncReceiver and on the blocks it returns,
\* and the steps of the native engine and of the pending recv future.
RecvNext ==
    \/ \E s \in Sessions :
        \/ NativeDataArrives(s) \/ AsyncReceiverTryRecv(s)
        \/ AsyncReceiverRecvStart(s) \/ AsyncReceiverRecvPoll(s)
        \/ AsyncReceiverRecvDeadline(s) \/ AsyncReceiverRecvCancel(s)
        \/ AsyncReceiverPollRead(s) \/ AsyncReceiverDrop(s)
    \/ \E b \in BlockHandles : DataBlockDrop(b) \/ DataBlockPayload(b)

\* The runtime's timer: a deadline that can fire does fire.
TimerSpec ==
    /\ BoundInit /\ [][RecvNext]_vars
    /\ WF_vars(\E s \in Sessions : AsyncReceiverRecvDeadline(s))

\* An AsyncSender as a successful connect handed it to the caller.
ConnectedInit ==
    StatsInit /\ \A s \in Sessions : sess[s].kind # "AsyncReceiver"

\* The operations on a connected AsyncSender and the steps of its tasks.
SendNext ==
    \E s \in Sessions :
        \/ AsyncSenderPollWrite(s) \/ AsyncSenderPollFlush(s)
        \/ AsyncSenderPollShutdown(s) \/ AsyncSenderDrop(s)
        \/ \E t \in SendSlots :
            \/ AsyncSenderSend(s, t) \/ SendWorkerRun(s, t) \/ SendTaskCancel(s, t)
            \/ AsyncSenderSendPoll(s, t) \/ AsyncSenderSendDrop(s, t)
            \/ CallerReusesBuffer(s, t)

\* The blocking pool: a queued send closure is run (or dropped at runtime
\* shutdown); it does not wait forever.
WorkerSpec ==
    /\ ConnectedInit /\ [][SendNext]_vars
    /\ \A s \in Sessions : \A t \in SendSlots :
          WF_vars(SendWorkerRun(s, t) \/ SendTaskCancel(s, t))

\* ------------------------------------------------------------ claims
Blocking(s) == s \in Sessions /\ sess[s].kind \in {"Sender", "Receiver"}
ParserFns == {"rist_parse_address2", "rist_peer_create"}

\* C1: the native destroy call is issued at most once on any Context
\* handle, whatever the session type and whatever the exit path.
C1_DestroyAtMostOnce == \A h \in Sessions : ctxs[h].destroys <= 1

\* C1 witness: the connect worker destroyed its context on an error path
\* and the failed connect future has since been resolved or dropped.
C1_Witness ==
    \E h \in Sessions :
        /\ sess[h].kind = "AsyncSender" /\ sess[h].status = "failed"
        /\ ctxs[h].destroys = 1

\* C2: no native call is issued on a Context handle after the native
\* destroy call was made on it.
C2_NoCallAfterDestroy == \A h \in Sessions : ctxs[h].late = {}

\* C3: once bind_with_options has returned an error, or the receiver it
\* returned has been dropped, a Context it created was destroyed exactly once.
C3_BindDestroysOnEveryExit ==
    \A h \in Sessions :
        ( /\ sess[h].kind = "AsyncReceiver"
          /\ sess[h].status \in {"failed", "dropped"}
          /\ ctxs[h].state # "unused" )
        => ctxs[h].destroys = 1

\* C4: once the connect worker has returned an error, or the AsyncSender it
\* built has been dropped, a Context it created was destroyed exactly once.
C4_ConnectDestroysOnEveryExit ==
    \A h \in Sessions :
        ( /\ sess[h].kind = "AsyncSender"
          /\ \/ conn[h].task \in {"done", "taken"} /\ IsErr(conn[h].out)
             \/ sess[h].status = "dropped"
          /\ ctxs[h].state # "unused" )
        => ctxs[h].destroys = 1

\* C5: on a blocking Sender or Receiver whose native start never succeeded,
\* read, send and send_with_flow_id return NotStarted and make no native call.
C5_NotStartedNoNativeCall ==
    ( /\ Blocking(lastCall.sess)
      /\ lastCall.op \in {"read", "send", "send_with_flow_id"}
      /\ ~ctxs[lastCall.sess].started )
    => /\ lastCall.result.kind = "NotStarted"
       /\ lastCall.calls = <<>>

\* C5 witness: a read was refused on a receiver that was never started.
C5_Witness ==
    /\ Blocking(lastCall.sess) /\ lastCall.op = "read"
    /\ ~ctxs[lastCall.sess].started
    /\ lastCall.result.kind = "NotStarted"

\* C6: a start() on a blocking session whose native start already
\* succeeded returns AlreadyStarted, issues no native call and leaves the
\* session started.
C6_SecondStartRefused ==
    [][ \A s \in Sessions :
          ( /\ Blocking(s) /\ ctxs[s].started
            /\ lastCall'.op = "start" /\ lastCall'.sess = s )
          => /\ lastCall'.result.kind = "AlreadyStarted"
             /\ lastCall'.calls = <<>>
             /\ sess'[s].started /\ ctxs'[s].started ]_vars

\* C6 witness: a second start was refused on a started session.
C6_Witness ==
    /\ Blocking(lastCall.sess) /\ lastCall.op = "start"
    /\ lastCall.result.kind = "AlreadyStarted"
    /\ ctxs[lastCall.sess].started

PeerEntryOps == {"add_peer", "bind_with_options", "connect_worker"}

\* C7 as stated: for an address holding a NUL byte every peer-adding entry
\* point fails with NulError and never calls the native parser or native
\* peer creation.
C7_NulAlwaysNulError ==
    (lastCall.op \in PeerEntryOps /\ HasNul(lastCall.url))
    => /\ lastCall.result.kind = "NulError"
       /\ CallsTo(lastCall.calls, ParserFns) = {}

\* C7 as amended: for an address holding a NUL byte every peer-adding entry
\* point fails and never calls the native parser or native peer creation;
\* the error is NulError for add_peer, and for bind_with_options and the
\* connect worker whenever construction reached the peer-adding step, and
\* otherwise the error of the earlier step that failed (ContextCreation or
\* EventFd; JoinError when the connect task never ran).
C7_NulRejected ==
    /\ (lastCall.op \in PeerEntryOps /\ HasNul(lastCall.url))
       => /\ CallsTo(lastCall.calls, ParserFns) = {}
          /\ IF \/ lastCall.op = "add_peer"
                \/ CallsTo(lastCall.calls, {"rist_stats_callback_set"}) # {}
             THEN lastCall.result.kind = "NulError"
             ELSE lastCall.result.kind \in {"ContextCreation", "EventFd"}
    /\ ( /\ lastCall.op = "connect_poll" /\ HasNul(lastCall.url)
         /\ lastCall.result.kind # "Pending" )
       => lastCall.result.kind \in {"NulError", "ContextCreation", "JoinError"}

\* C7 witness: bind_with_options refused an address holding a NUL byte
\* after it had created and set up its context.
C7_Witness ==
    /\ lastCall.op = "bind_with_options" /\ HasNul(lastCall.url)
    /\ lastCall.result.kind = "NulError"
    /\ CallsTo(lastCall.calls, {"rist_stats_callback_set"}) # {}

StartedReceiverRead ==
    /\ lastCall.sess \in Sessions
    /\ sess[lastCall.sess].kind = "Receiver"
    /\ lastCall.op = "read"
    /\ ctxs[lastCall.sess].started

\* C8: on a started Receiver, a timeout of more than I32_MAX milliseconds
\* makes read fail with TimeoutOverflow without a native read, and any
\* other timeout reaches the native read as exactly its millisecond value.
C8_TimeoutConversion ==
    StartedReceiverRead
    => IF lastCall.timeout.hi > 0
       THEN /\ lastCall.result.kind = "TimeoutOverflow"
            /\ lastCall.calls = <<>>
       ELSE /\ Len(lastCall.calls) = 1
            /\ lastCall.calls[1].fn = "rist_receiver_data_read2"
            /\ lastCall.calls[1].arg = lastCall.timeout.lo

\* C8 witness: a started receiver refused a timeout of 2^32 + 100 ms, which
\* a truncating conversion would have turned into 100 ms.
C8_Witness ==
    /\ StartedReceiverRead
    /\ lastCall.timeout = Millis(2, 100)
    /\ lastCall.result.kind = "TimeoutOverflow"

RecvTimeoutReturned ==
    lastCall.op = "recv_timeout" /\ lastCall.result.kind # "Pending"

\* C9 as stated: recv_timeout with a timeout of more than the
\* representable millisecond range fails with TimeoutOverflow.
C9_RecvTimeoutOverflow ==
    (RecvTimeoutReturned /\ lastCall.timeout.hi > 0)
    => lastCall.result.kind = "TimeoutOverflow"

\* C9 as amended: for every timeout, in or out of the i32 millisecond
\* range, recv_timeout never fails with TimeoutOverflow: it returns recv's
\* own result (a block, no data, a Read or EventFd error) or Ok(None) at the
\* deadline, and the only native read it makes has a zero timeout.
C9_RecvTimeoutNeverOverflows ==
    RecvTimeoutReturned
    => /\ lastCall.result.kind \in {"OkNone", "OkSome", "Read", "EventFd"}
       /\ \A i \in CallsTo(lastCall.calls, {"rist_receiver_data_read2"}) :
             lastCall.calls[i].arg = 0

\* C9 witness: recv_timeout with a timeout of 2^32 + 100 ms delivered a
\* block.
C9_Witness ==
    /\ RecvTimeoutReturned
    /\ lastCall.timeout = Millis(2, 100)
    /\ lastCall.result.kind = "OkSome"

\* C10: every PeerConfig handle the native parser produced has been
\* released exactly once when the add-peer operation has returned, and was
\* never used after its release.
C10_PeerConfigReleasedOnce ==
    \A c \in CfgHandles :
        cfgs[c].state # "unused" => (cfgs[c].frees = 1 /\ ~cfgs[c].late)

ReadFns == {"rist_receiver_data_read2"}
FreeFns == {"rist_receiver_data_block_free2"}
ReceiveOps == {"read", "try_recv", "recv", "recv_timeout"}

\* C11: every data-block handle a native read handed out is released at
\* most once and only by the drop of its DataBlock, its payload is never
\* read after the release, a receive call hands the handle to the caller
\* unreleased, and poll_read releases it as its last step, after the bytes
\* were copied to the caller's buffer and the leftover buffer.
C11_BlockReleasedOnce ==
    /\ \A b \in BlockHandles :
          /\ blks[b].frees <= 1
          /\ ~blks[b].late
          /\ (blks[b].state = "freed") <=> (blks[b].frees = 1)
    /\ CallsTo(lastCall.calls, FreeFns) # {}
          => lastCall.op \in {"block_drop", "poll_read"}
    /\ \A i \in CallsTo(lastCall.calls, ReadFns) :
          LET b == lastCall.calls[i].blk
              n == Len(lastCall.calls)
          IN  b # NULL =>
                IF lastCall.op = "poll_read"
                THEN /\ CallsTo(lastCall.calls, FreeFns) = {n}
                     /\ lastCall.calls[n].blk = b
                     /\ CallsTo(lastCall.calls, {"payload"}) # {}
                     /\ blks[b].frees = 1
                ELSE /\ lastCall.op \in ReceiveOps
                     /\ lastCall.result = RN("OkSome", b)
                     /\ CallsTo(lastCall.calls, FreeFns) = {}
                     /\ blks[b].state = "live"

\* C11 witness: poll_read took a block larger than the caller's buffer,
\* kept the remainder in the leftover buffer and released the block.
C11_Witness ==
    /\ lastCall.op = "poll_read"
    /\ Cardinality(CallsTo(lastCall.calls, {"payload"})) = 2
    /\ rx[lastCall.sess].read_buf # <<>>
    /\ \E b \in BlockHandles : blks[b].frees = 1

\* What read and try_recv make of the native return code and block pointer.
ReadResult(c) ==
    IF c.ret < 0 THEN R("Read")
    ELSE IF c.ret = 0 \/ c.blk = NULL THEN R("OkNone")
    ELSE RN("OkSome", c.blk)

\* C12: a started Receiver's read with an in-range timeout, and
\* AsyncReceiver::try_recv with a zero timeout, make one native read and
\* return the Read error exactly when its code is negative, Ok(None)
\* exactly when the code is zero or the block pointer null, and otherwise
\* Ok(Some) of the native handle.
C12_ReadMapping ==
    ( \/ StartedReceiverRead /\ lastCall.timeout.hi = 0
      \/ lastCall.op = "try_recv" )
    => /\ Len(lastCall.calls) = 1
       /\ lastCall.calls[1].fn = "rist_receiver_data_read2"
       /\ lastCall.op = "try_recv" => lastCall.calls[1].arg = 0
       /\ lastCall.result = ReadResult(lastCall.calls[1])

\* C12 witness: a started receiver's read got a positive code with a null
\* block pointer and returned Ok(None).
C12_Witness ==
    /\ StartedReceiverRead
    /\ Len(lastCall.calls) = 1
    /\ lastCall.calls[1].ret > 0 /\ lastCall.calls[1].blk = NULL
    /\ lastCall.result.kind = "OkNone"

StartedSenderSend ==
    /\ lastCall.sess \in Sessions
    /\ sess[lastCall.sess].kind = "Sender"
    /\ lastCall.op \in {"send", "send_with_flow_id"}
    /\ ctxs[lastCall.sess].started

\* C13: on a started Sender each send makes exactly one native write whose
\* descriptor has the caller's length and flow id 0 (the given flow id for
\* send_with_flow_id), and returns the Send error exactly when the native
\* return is negative and otherwise Ok of the native return, unchanged.
C13_SendMapping ==
    StartedSenderSend
    => /\ Len(lastCall.calls) = 1
       /\ LET c == lastCall.calls[1]
          IN  /\ c.fn = "rist_sender_data_write"
              /\ c.ctx = lastCall.sess
              /\ c.arg = lastCall.len
              /\ c.flow = IF lastCall.op = "send" THEN 0 ELSE lastCall.flow
              /\ lastCall.result =
                    IF c.ret < 0 THEN R("Send") ELSE RN("Ok", c.ret)

\* C13 witness: the native layer accepted less than the whole payload and
\* send returned that smaller count.
C13_Witness ==
    /\ StartedSenderSend /\ lastCall.op = "send"
    /\ lastCall.result.kind = "Ok"
    /\ lastCall.result.n < lastCall.len

\* C14: for a NUL-free address add_peer returns UrlParse(address) when
\* the native parser fails, without calling native peer creation;
\* PeerCreation(address) when parsing succeeds and native peer creation
\* returns non-zero; Ok otherwise.  The carried string is the address.
C14_AddPeerErrors ==
    (lastCall.op = "add_peer" /\ ~HasNul(lastCall.url))
    => /\ Len(lastCall.calls) >= 1
       /\ lastCall.calls[1].fn = "rist_parse_address2"
       /\ IF lastCall.calls[1].ret # 0 \/ lastCall.calls[1].cfg = NULL
          THEN /\ lastCall.result = RUrl("UrlParse", lastCall.url)
               /\ CallsTo(lastCall.calls, {"rist_peer_create"}) = {}
          ELSE /\ CallsTo(lastCall.calls, {"rist_peer_create"}) = {2}
               /\ lastCall.calls[2].ctx = lastCall.sess
               /\ lastCall.result =
                     IF lastCall.calls[2].ret # 0
                     THEN RUrl("PeerCreation", lastCall.url) ELSE R("Ok")

\* C14 witness: native peer creation failed for a non-empty address and
\* add_peer returned PeerCreation carrying that address.
C14_Witness ==
    /\ lastCall.op = "add_peer"
    /\ lastCall.url # NoUrl
    /\ lastCall.result = RUrl("PeerCreation", lastCall.url)

RawStatsReturned(s) ==
    /\ lastCall.op = "raw_stats" /\ lastCall.sess = s
    /\ lastCall.result.kind # "Pending"

\* C15: with the callback and raw_stats interleaving, every snapshot
\* raw_stats returns is whole: both of its fields come from one callback
\* invocation, and that invocation had the session's shape.
C15_WholeSnapshot ==
    \A s \in Sessions :
        /\ stats[s].ret.a = stats[s].ret.b
        /\ stats[s].ret.a # 0 => stats[s].shape[stats[s].ret.a] = "match"

\* C15 witness: raw_stats ran into a callback invocation that held the
\* cell and returned that invocation's snapshot.
C15_Witness ==
    \E s \in Sessions :
        /\ RawStatsReturned(s)
        /\ stats[s].waited
        /\ stats[s].ret # Snapshot(0)

\* C16: raw_stats never waits: no application thread is ever suspended in
\* raw_stats on the cell's lock.
C16_RawStatsNeverWaits ==
    \A s \in Sessions : stats[s].rd.pc # "waiting"

\* C17 as stated: raw_stats returns None while no matching-shape callback
\* invocation has completed, and otherwise the snapshot of the matching
\* invocation that completed last.
C17_LastCompletedWins ==
    \A s \in Sessions :
        RawStatsReturned(s)
        => stats[s].ret = Snapshot(LastCompleted(stats[s]))

\* C17 as amended: the cell holds one snapshot, that of the matching-shape
\* invocation that stored last (None before any stored); an invocation of
\* the other shape or with a null context argument leaves it unchanged;
\* and raw_stats returns what the cell holds, whether or not the storing
\* invocation has yet released its container and returned.
C17_LastStoredWins ==
    \A s \in Sessions :
        /\ stats[s].lock # "callback"
              => stats[s].cell = Snapshot(LastStored(stats[s]))
        /\ RawStatsReturned(s)
              => /\ stats[s].ret = Snapshot(LastStored(stats[s]))
                 /\ lastCall.result =
                       IF LastStored(stats[s]) = 0 THEN R("None")
                       ELSE RN("Some", LastStored(stats[s]))

\* C17 witness: after a matching invocation stored its snapshot and an
\* invocation of the other shape returned, raw_stats still returned the
\* first one's snapshot.
C17_Witness ==
    \E s \in Sessions :
        /\ RawStatsReturned(s)
        /\ stats[s].invoked = 2 /\ stats[s].cb.pc = "idle"
        /\ stats[s].shape[1] = "match" /\ stats[s].shape[2] = "mismatch"
        /\ stats[s].ret = Snapshot(1)

\* C18: every callback invocation that has returned released the native
\* stats container it was given exactly once.
C18_ContainerReleasedOnce ==
    \A s \in Sessions :
        \A i \in Returned(stats[s]) : stats[s].frees[i] = 1

\* C19: when the deadline of recv_timeout elapses while recv still waits
\* for a readiness notification, recv_timeout completes with Ok(None), not
\* an error, and without a native call; and while no notification arrives
\* a pending recv_timeout does complete (at its deadline at the latest).
C19_DeadlineYieldsNoData ==
    /\ [][ \A s \in Sessions :
             AsyncReceiverRecvDeadline(s)
             => /\ lastCall'.op = "recv_timeout"
                /\ lastCall'.result = R("OkNone")
                /\ lastCall'.calls = <<>>
                /\ rx'[s].fut = "none" ]_vars
    /\ \A s \in Sessions :
          (rx[s].fut = "recv_timeout" /\ ~rx[s].ready)
          ~> (rx[s].fut = "none" \/ rx[s].ready)

\* C19 witness: a recv_timeout ended at its deadline with Ok(None), no
\* notification having arrived.
C19_Witness ==
    /\ lastCall.op = "recv_timeout"
    /\ lastCall.result = R("OkNone")
    /\ lastCall.calls = <<>>
    /\ ~rx[lastCall.sess].ready

\* C20: recv completes only with a data block or an error: a wakeup whose
\* zero-timeout poll yields no block does not complete it.
C20_RecvCompletesOnlyWithData ==
    (lastCall.op = "recv" /\ lastCall.result.kind # "Pending")
    => lastCall.result.kind \in {"OkSome", "Read", "EventFd"}

\* C21: dropping a pending recv future, by the caller or by the deadline
\* of recv_timeout, makes no native call, takes no block from the engine,
\* and leaves the pipe's pending notifications and the readiness flag as
\* they were; a pending notification always shows as readiness, so a later
\* recv is woken for it; and a step that drains the pipe performs the
\* native poll in the same step.
C21_DropKeepsNotifications ==
    /\ [][ \A s \in Sessions :
             (AsyncReceiverRecvCancel(s) \/ AsyncReceiverRecvDeadline(s))
             => /\ lastCall'.calls = <<>>
                /\ blks' = blks
                /\ rx'[s].queue = rx[s].queue
                /\ rx'[s].pipe = rx[s].pipe
                /\ rx'[s].ready = rx[s].ready
                /\ rx'[s].fut = "none" ]_vars
    /\ [][ \A s \in Sessions :
             rx'[s].pipe < rx[s].pipe
             => CallsTo(lastCall'.calls, ReadFns) # {} ]_vars
    /\ [](\A s \in Sessions : rx[s].pipe > 0 => rx[s].ready)

\* C21 witness: a pending recv was dropped while a notification and its
\* block were waiting, and both are still there.
C21_Witness ==
    /\ lastCall.op = "recv_cancel"
    /\ rx[lastCall.sess].pipe > 0
    /\ rx[lastCall.sess].ready
    /\ rx[lastCall.sess].queue > 0

\* C22: for one consumer the handles returned by read, try_recv, recv and
\* recv_timeout, in call order, are a prefix of the handles the native
\* engine handed to those calls, in delivery order.
C22_ReturnedInDeliveryOrder ==
    \A s \in Sessions : IsPrefix(rx[s].returned, rx[s].native)

\* C22 witness: two blocks were returned, by different receive calls, in the
\* order the engine delivered them.
C22_Witness ==
    \E s \in Sessions :
        /\ Len(rx[s].returned) >= 2
        /\ rx[s].returned[1] < rx[s].returned[2]
        /\ lastCall.op \in {"recv", "recv_timeout"}
        /\ lastCall.result.kind = "OkSome"

\* C23: the awaiting caller of send or connect gets JoinError exactly when
\* the worker task ended without delivering a result; a task that ran
\* hands its own result to the caller unchanged, and no worker result is
\* itself a JoinError.
C23_JoinErrorOnlyForLostTask ==
    /\ [][ \A s \in Sessions :
             /\ \A t \in SendSlots :
                  AsyncSenderSendPoll(s, t)
                  => /\ (lastCall'.result.kind = "JoinError")
                          <=> (sendTasks[s][t].state = "cancelled")
                     /\ sendTasks[s][t].state = "done"
                          => lastCall'.result = sendTasks[s][t].out
             /\ (ConnectPoll(s) /\ conn'[s].fut = "Ready")
                  => /\ (lastCall'.result.kind = "JoinError")
                          <=> (conn[s].task = "cancelled")
                     /\ conn[s].task = "done"
                          => lastCall'.result = conn[s].out ]_vars
    /\ [](\A s \in Sessions :
             /\ conn[s].out.kind # "JoinError"
             /\ \A t \in SendSlots : sendTasks[s][t].out.kind # "JoinError")

\* C23 witness: a send whose task was lost returned JoinError.
C23_Witness ==
    /\ lastCall.op = "send"
    /\ lastCall.result.kind = "JoinError"

\* C24: dropping a dispatched send future leaves its task queued and makes
\* no native call; the worker makes exactly one native write, of the bytes
\* send was called with, and the task is not queued afterwards; and a
\* detached task does not stay queued: it is run, unless the runtime shuts
\* down first.
C24_DetachedSendRunsOnce ==
    /\ [][ \A s \in Sessions : \A t \in SendSlots :
             /\ (AsyncSenderSendDrop(s, t) /\ sendTasks[s][t].state = "queued")
                  => /\ sendTasks'[s][t].state = "queued"
                     /\ sendTasks'[s][t].len = sendTasks[s][t].len
                     /\ lastCall'.calls = <<>>
             /\ SendWorkerRun(s, t)
                  => /\ Len(lastCall'.calls) = 1
                     /\ lastCall'.calls[1].fn = "rist_sender_data_write"
                     /\ lastCall'.calls[1].ctx = s
                     /\ lastCall'.calls[1].arg = sendTasks[s][t].asked
                     /\ sendTasks'[s][t].state # "queued" ]_vars
    /\ \A s \in Sessions : \A t \in SendSlots :
          (sendTasks[s][t].state = "queued" /\ ~sendTasks[s][t].awaited)
          ~> (lastCall.op \in {"send_worker", "send_cancel"})

\* C24 witness: the worker of a dropped send future made its one write.
C24_Witness ==
    /\ lastCall.op = "send_worker"
    /\ Len(lastCall.calls) = 1
    /\ lastCall.calls[1].arg = 1
    /\ \A t \in SendSlots : sendTasks[lastCall.sess][t] = IdleTask

\* C25: once a Connect future dropped after dispatch has had its task run,
\* a Context the task created has been destroyed exactly once.
C25_DetachedConnectDestroysContext ==
    \A h \in Sessions :
        ( /\ conn[h].fut = "Dropped"
          /\ conn[h].task = "done"
          /\ ctxs[h].state # "unused" )
        => ctxs[h].destroys = 1

\* C26: a poll_read that finds the leftover buffer non-empty makes no native
\* call, delivers its first min(capacity, length) bytes and removes exactly
\* those; one that finds it empty makes one native read, with timeout 0.
C26_LeftoverServedFirst ==
    [][ \A s \in Sessions :
          (lastCall'.op = "poll_read" /\ lastCall'.sess = s)
          => LET before == rx[s].read_buf
                 n == Min(lastCall'.len, Len(before))
             IN  IF before # <<>>
                 THEN /\ lastCall'.calls = <<>>
                      /\ lastCall'.result = RN("Ready", n)
                      /\ rx'[s].stream = rx[s].stream \o SubSeq(before, 1, n)
                      /\ rx'[s].read_buf = SubSeq(before, n + 1, Len(before))
                      /\ rx'[s].queue = rx[s].queue
                 ELSE /\ Cardinality(CallsTo(lastCall'.calls, ReadFns)) = 1
                      /\ lastCall'.calls[1].fn \in ReadFns
                      /\ lastCall'.calls[1].arg = 0 ]_vars

\* C26 witness: a poll_read served part of a longer leftover buffer.
C26_Witness ==
    /\ lastCall.op = "poll_read"
    /\ lastCall.calls = <<>>
    /\ lastCall.result.n > 0
    /\ rx[lastCall.sess].read_buf # <<>>

\* C27: the bytes poll_read has delivered, followed by the leftover buffer,
\* are the payloads of the blocks it took, in delivery order; so the bytes
\* delivered are a prefix of those payloads.
C27_StreamIsPayloadPrefix ==
    \A s \in Sessions :
        /\ rx[s].stream \o rx[s].read_buf = Payloads(rx[s].taken)
        /\ IsPrefix(rx[s].stream, Payloads(rx[s].taken))

\* C27 witness: after the bytes of one block, the fitting prefix of the
\* next, larger block was delivered and its remainder retained.
C27_Witness ==
    \E s \in Sessions :
        /\ Len(rx[s].taken) >= 2
        /\ Len(rx[s].stream) >= 2
        /\ rx[s].read_buf # <<>>
        /\ lastCall.op = "poll_read"
        /\ lastCall.len > 0
        /\ CallsTo(lastCall.calls, ReadFns) # {}

\* C28: a poll_read given a buffer with room for at least one byte never
\* completes successfully with no byte delivered.
C28_NoZeroByteCompletion ==
    ( /\ lastCall.op = "poll_read"
      /\ lastCall.len > 0
      /\ lastCall.result.kind = "Ready" )
    => lastCall.result.n > 0

\* C29: poll_write makes one native write of the given bytes with flow id 0
\* and completes at once, with an I/O error for a negative return and the
\* return as the byte count otherwise; poll_flush and poll_shutdown
\* complete at once with success and without a native call.
C29_StreamWrite ==
    /\ lastCall.op = "poll_write"
          => /\ Len(lastCall.calls) = 1
             /\ lastCall.calls[1] =
                    WriteCall(lastCall.sess, lastCall.len, 0, lastCall.calls[1].ret)
             /\ lastCall.result =
                    IF lastCall.calls[1].ret < 0 THEN R("IoError")
                    ELSE RN("Ok", lastCall.calls[1].ret)
    /\ lastCall.op \in {"poll_flush", "poll_shutdown"}
          => /\ lastCall.calls = <<>>
             /\ lastCall.result = R("Ok")

\* C29 witness: a poll_write whose native write failed completed with an
\* I/O error.
C29_Witness ==
    /\ lastCall.op = "poll_write"
    /\ lastCall.len > 0
    /\ lastCall.calls[1].ret < 0
    /\ lastCall.result = R("IoError")

\* C30: after an options object is applied to a parsed peer configuration,
\* every field whose option is unset, and every field no option addresses,
\* holds the value the parser produced; with all options unset the whole
\* configuration is as parsed.
C30_UnsetOptionsKeepParsed ==
    pcfg.applied
    => /\ \A f \in DOMAIN pcfg.config :
             (f \notin DOMAIN pcfg.options \/ pcfg.options[f] = None)
             => pcfg.config[f] = pcfg.parsed[f]
       /\ (\A f \in DOMAIN pcfg.options : pcfg.options[f] = None)
             => pcfg.config = pcfg.parsed

\* C30 witness: options with the recovery mode set and the bitrate unset
\* were applied; the configuration changed and kept the parsed bitrate.
C30_Witness ==
    /\ pcfg.applied
    /\ pcfg.kind = "ReceiverOptions"
    /\ pcfg.options.recovery_mode # None
    /\ pcfg.options.recovery_maxbitrate = None
    /\ pcfg.config # pcfg.parsed
    /\ pcfg.config.recovery_maxbitrate = pcfg.parsed.recovery_maxbitrate

\* The duration options of ReceiverOptions and SenderOptions.
DurationOptions ==
    {"recovery_length_min", "recovery_length_max", "recovery_rtt_min",
     "recovery_rtt_max"}

\* The native value that stands for what the caller set in option f: the
\* enumerator of a recovery mode, the number itself, and for a duration its
\* count of whole milliseconds.
NativeValue(f, v) == IF f = "recovery_mode" THEN RecoveryMode_to_raw(v) ELSE v

\* C31: once the options are applied, every option the caller set
\* (recovery mode, max bitrate, min/max buffer length, reorder buffer,
\* min/max round-trip time and the receiver's fifo_size) is found in the
\* native configuration of the session with the value the caller set.
C31_SetOptionsWritten ==
    pcfg.applied
    => \A f \in DOMAIN pcfg.options :
          pcfg.options[f] # None
          => pcfg.config[f] = NativeValue(f, pcfg.options[f][1])

\* C38: every duration option that is set is written as the duration's
\* whole-millisecond count, unchanged, whatever the duration.
C38_DurationsWrittenUnaltered ==
    pcfg.applied
    => \A f \in DOMAIN pcfg.options \cap DurationOptions :
          pcfg.options[f] # None => pcfg.config[f] = pcfg.options[f][1]

DataOps == {"read", "send", "send_with_flow_id"}

\* C33: on a blocking Sender or Receiver the started flag, false at
\* construction, changes only in a start() that returns Ok, which sets it;
\* a start() whose native call fails returns Start and leaves the session
\* not started, so that a later start() calls the native start again and
\* read and send keep returning NotStarted; add_peer, read, send and failed
\* calls leave the flag as it is, and it never goes back to false.
C33_StartedFlagFollowsStart ==
    [][ \A s \in Sessions :
          (Blocking(s) /\ sess'[s].kind = sess[s].kind)
          => LET here == lastCall'.sess = s
                 isStart == here /\ lastCall'.op = "start"
             IN  /\ sess'[s].started # sess[s].started
                    => /\ isStart /\ lastCall'.result.kind = "Ok"
                       /\ sess'[s].started
                 /\ (isStart /\ lastCall'.result.kind = "Ok")
                    => ~sess[s].started /\ sess'[s].started
                 /\ (isStart /\ ~sess[s].started)
                    => /\ Len(lastCall'.calls) = 1
                       /\ lastCall'.calls[1].fn = "rist_start"
                       /\ lastCall'.calls[1].ret # 0
                          => /\ lastCall'.result.kind = "Start"
                             /\ ~sess'[s].started
                 /\ (here /\ lastCall'.op \in DataOps /\ ~sess[s].started)
                    => lastCall'.result.kind = "NotStarted" ]_vars

\* C33 witness: a start whose native call failed left a session with a
\* registered peer not started.
C33_Witness ==
    /\ Blocking(lastCall.sess) /\ lastCall.op = "start"
    /\ lastCall.result.kind = "Start"
    /\ ctxs[lastCall.sess].peers
    /\ ~sess[lastCall.sess].started

\* C37: an AsyncReceiver that bind returned and an AsyncSender that the
\* connect future yielded has a live Context on which the peer was
\* registered and the native start succeeded; recv, try_recv, send and the
\* stream calls, which test no flag, never meet a session not started.
C37_AsyncSessionsAreStarted ==
    \A s \in Sessions :
        (sess[s].kind \in AsyncKinds /\ sess[s].status = "live")
        => /\ ctxs[s].state = "live"
           /\ ctxs[s].peers
           /\ ctxs[s].started

\* C37 witness: try_recv made its native read on a bound receiver, whose
\* Context is started.
C37_Witness ==
    /\ lastCall.op = "try_recv"
    /\ Live(lastCall.sess, "AsyncReceiver")
    /\ lastCall.calls # <<>>
    /\ ctxs[lastCall.sess].started

\* C36: while a Context exists with a stats callback registered, the cell
\* the callback's argument points to is allocated; on no path is the cell
\* freed before the Context is destroyed.
C36_StatsCellOutlivesContext ==
    \A s \in Sessions :
        /\ ctxs[s].cell # "dangling"
        /\ (ctxs[s].state = "live" /\ ctxs[s].cell # "none")
              => ctxs[s].cell = "held"

RecvOps == {"recv", "recv_timeout"}

\* C34: a recv that returns a block while further blocks stay queued in
\* the native engine leaves the receiver readable, so that the next recv
\* completes without another arrival and k recv calls return k queued blocks.
C34_NoLostWakeup ==
    \A s \in Sessions :
        ( /\ lastCall.sess = s /\ lastCall.op \in RecvOps
          /\ lastCall.result.kind = "OkSome"
          /\ Live(s, "AsyncReceiver")
          /\ rx[s].queue > 0 )
        => rx[s].ready

\* The calls through which a poll function has its task woken later: they
\* take the task context (or its waker).
WakeFns == {"AsyncFd::poll_read_ready", "Waker::wake_by_ref"}

\* C35: a poll_read that returns Pending has arranged a wakeup of the task
\* that polled it.
C35_PendingArrangesWakeup ==
    (lastCall.op = "poll_read" /\ lastCall.result.kind = "Pending")
    => CallsTo(lastCall.calls, WakeFns) # {}

\* ------------------------------------------------------ loopback pair
\* The bytes of the payloads the sender of the pair is given: 71 is the
\* transport-stream sync byte 0x47, 72 any other byte.
TsBytes == {71, 72}
TestPayloads == UNION {[1..n -> TsBytes] : n \in PayloadLens}
RxCtx == 1            \* the Context handle of the receiving end
TxCtx == 2            \* the Context handle of the sending end
ReadTimeout == Millis(0, 100)
LinkModes == {"blocking", "async"}

\* std::slice::from_raw_parts(ptr, len): the first len bytes at ptr.
SliceFromRawParts(ptr, len) == SubSeq(ptr, 1, len)

\* A descriptor whose length is one byte short of the slice.
DataDescriptor_Short(data) ==
    [payload |-> data, payload_len |-> IF data = <<>> THEN 0 ELSE Len(data) - 1]

\* The rist_data_block send builds: it points at the caller's bytes and
\* carries their count.
DataDescriptor(data) == [payload |-> data, payload_len |-> Len(data)]

\* What the native engine answers to a write on a healthy session: the
\* payload length it queued, or -1.
LinkWriteOutcomes(len) == {-1, len}

\* What the out-parameter of a read of the receiving end holds: the next
\* block of the output fifo under a fresh handle, or nothing.
LinkReadOut ==
    IF link.fifo # <<>>
    THEN [ret |-> 1, blk |-> Len(link.held) + 1]
    ELSE [ret |-> 0, blk |-> NULL]

\* The pair after a read or recv call with outcome r: a returned block
\* leaves the fifo, is held by the caller, and the caller reads its payload.
LinkAfterRead(r) ==
    IF r.result.kind = "OkSome"
    THEN LET held == Append(link.held, Head(link.fifo))
             block == held[r.result.n]
         IN  [link EXCEPT !.fifo = Tail(@), !.held = held,
                          !.got = Append(@, SliceFromRawParts(block.payload,
                                                              block.payload_len))]
    ELSE link

\* The pair after a write call of the sending end: the engine copies the
\* bytes the descriptor describes when it accepts the block.
LinkAfterWrite(data, desc, r) ==
    IF r.result.kind = "Ok"
    THEN [link EXCEPT !.sent = Append(@, data),
                      !.wire = Append(@, SliceFromRawParts(desc.payload,
                                                           r.calls[1].arg))]
    ELSE link

LinkStep(op, timeout, len, r) ==
    /\ lastCall' = [Step(0, op, NoUrl, timeout, r.result, r.calls)
                        EXCEPT !.len = len]
    /\ UNCHANGED <<pcfg, stats, sess, ctxs, cfgs, blks, conn, sendTasks, rx>>

\* Sender::send on the blocking pair.
LinkSend ==
    /\ link.mode = "blocking"
    /\ Len(link.sent) < MaxSent
    /\ \E data \in TestPayloads :
          LET desc == DataDescriptor(data) IN
          \E ret \in LinkWriteOutcomes(desc.payload_len) :
              LET r == Sender_send(TxCtx, link.started, desc.payload_len, ret) IN
              /\ link' = LinkAfterWrite(data, desc, r)
              /\ LinkStep("send", NoTimeout, Len(data), r)

\* AsyncSender::send on the async pair, awaited to completion: the copy,
\* the blocking task and the join.
LinkSendAsync ==
    /\ link.mode = "async"
    /\ Len(link.sent) < MaxSent
    /\ \E data \in TestPayloads :
          LET desc == DataDescriptor(data)
              task == AsyncSender_send(desc.payload_len)
          IN  \E ret \in LinkWriteOutcomes(desc.payload_len) :
              LET w == Send_worker(TxCtx, WorkerPayload(task), ret)
                  r == [result |-> JoinResult("done", w.result), calls |-> w.calls]
              IN  /\ link' = LinkAfterWrite(data, desc, r)
                  /\ LinkStep("send", NoTimeout, Len(data), r)

\* The loopback transport and the receiving engine: the oldest payload in
\* flight arrives, becomes a block of the output fifo, and the notification
\* pipe of an async receiver is written.
LinkDeliver ==
    /\ link.mode \in LinkModes
    /\ link.wire # <<>>
    /\ link' = [link EXCEPT
                   !.wire = Tail(@),
                   !.fifo = Append(@, [payload |-> Head(link.wire),
                                       payload_len |-> Len(Head(link.wire))]),
                   !.pipe = IF link.mode = "async" THEN 1 ELSE @,
                   !.ready = link.mode = "async" \/ @]
    /\ UNCHANGED <<pcfg, stats, sess, ctxs, cfgs, blks, conn, sendTasks, rx,
                   lastCall>>

\* Receiver::read on the blocking pair.
LinkRead ==
    /\ link.mode = "blocking"
    /\ LET r == Receiver_read(RxCtx, link.started, ReadTimeout, LinkReadOut) IN
       /\ link' = LinkAfterRead(r)
       /\ LinkStep("read", ReadTimeout, 0, r)

\* AsyncReceiver::recv_timeout on the async pair: recv runs once the pipe is
\* readable, and the deadline wins otherwise.
LinkRecvTimeout ==
    /\ link.mode = "async"
    /\ LET inner == AsyncReceiver_recv(RxCtx, TRUE, TRUE, LinkReadOut)
           r == AsyncReceiver_recv_timeout(ReadTimeout, ~link.ready, inner)
       IN  /\ link' = [LinkAfterRead(r) EXCEPT
                          !.pipe = IF link.ready /\ inner.drained THEN 0 ELSE @,
                          !.ready = IF link.ready /\ inner.cleared THEN FALSE ELSE @]
           /\ LinkStep("recv_timeout", ReadTimeout, 0, r)

\* A receiver bound to a port and a sender connected to it over loopback,
\* both started, blocking or async, and nothing sent yet.
LinkInit ==
    \E mode \in LinkModes :
        /\ sess = [s \in Sessions |-> Obj("none", "none", FALSE)]
        /\ ctxs = NoCtxs
        /\ cfgs = NoCfgs
        /\ blks = NoBlks
        /\ conn = [s \in Sessions |-> NoConn]
        /\ sendTasks = [s \in Sessions |-> [t \in SendSlots |-> IdleTask]]
        /\ rx = [s \in Sessions |-> NoRx]
        /\ stats = [s \in Sessions |-> NoStats]
        /\ pcfg = NoPcfg
        /\ lastCall = Step(0, "start", NoUrl, NoTimeout, R("Ok"), <<>>)
        /\ link = [NoLink EXCEPT
                      !.mode = mode,
                      !.started =
                          IF mode = "blocking"
                          THEN /\ Receiver_start(RxCtx, FALSE, 0).started
                               /\ Sender_start(TxCtx, FALSE, 0).started
                          ELSE /\ Built("AsyncReceiver", RxCtx).made
                               /\ Built("AsyncSender", TxCtx).made]

LinkNext ==
    \/ LinkSend \/ LinkSendAsync \/ LinkDeliver \/ LinkRead \/ LinkRecvTimeout

\* The transport delivers what is in flight and the caller keeps reading.
LinkSpec ==
    /\ LinkInit /\ [][LinkNext]_vars
    /\ WF_vars(LinkDeliver) /\ WF_vars(LinkRead) /\ WF_vars(LinkRecvTimeout)

\* C32: with a started receiver and a started sender connected over
\* loopback, every block a read returns carries exactly the bytes of a
\* payload that was sent, and once a payload has been sent the repeated
\* reads eventually return at least one block.
C32_LoopbackRoundtrip ==
    /\ [](\A i \in DOMAIN link.got :
             \E j \in DOMAIN link.sent :
                 /\ Len(link.got[i]) = Len(link.sent[j])
                 /\ link.got[i] = link.sent[j])
    /\ ((link.sent # <<>>) ~> (link.got # <<>>))

C32_Witness ==
    /\ Len(link.got) = 2
    /\ link.got[1] = <<71>>
    /\ link.got[2] # link.got[1]
    /\ lastCall.result.kind = "OkSome"

====
